---- MODULE Spec2Model ----
(***************************************************************************)
(* Model of the grading stage of the aithentic scripts: the batch handler, *)
(* the endpoint invoker (plain and retrying variants), the result          *)
(* validator and the store write, translated from src/unnamed/part_001     *)
(* (retrying variant, validation commented out) and                        *)
(* src/script/part2_Sagemaker.js (plain variant, validation enabled).      *)
(*                                                                         *)
(* Strings are sequences of chunks (tokens): a chunk is a punctuation mark *)
(* or literal of JSON text, a decimal integer literal, a quoted string     *)
(* literal, or an opaque run of other characters.  JSON.stringify and      *)
(* JSON.parse are a serializer and a recursive-descent parser over chunks. *)
(***************************************************************************)
EXTENDS Integers, Sequences, FiniteSets, TLC

VARIABLES
    variant,     \* "retry": part_001 (axios, retries, no validation); "plain": part2_Sagemaker.js
    dir,         \* the names in ./converted, in readdir order
    table,       \* the items of assignment_analysis_data when the run starts
    pc,          \* where the handler is suspended: scan, list, load, invoke, save, done, crashed, exited
    maxId,       \* handler: highest numeric analyticsId found by the scan
    txtFiles,    \* handler: the .txt names of the listing
    i,           \* handler: index in txtFiles of the file being processed
    results,     \* handler: the outcomes pushed so far
    response,    \* handler: the value it returned
    store,       \* the items written to the result store by this run, in order
    payload,     \* the request body of the last network call
    attempt,     \* invokeModelEndpoint: the loop variable
    ist,         \* invokeModelEndpoint: idle, inflight, backoff, returned, thrown
    calls,       \* network calls issued by the current invocation
    hist,        \* transport outcomes received by the current invocation, in order
    delays,      \* backoff delays (ms) started by the current invocation, in order
    modelResult, \* what the current invocation returned
    ierr,        \* what the current invocation threw
    steps,       \* per-document record of what each step did (history)
    visited,     \* the files the loop body was entered for, in order (history)
    vIn,         \* validator specification: the result handed to the validator
    vOut,        \* validator specification: what the call produced
    plain,       \* codec specification: the plain value handed to toDynamoDBFormat
    wire,        \* codec specification: the typed-attribute value handed to convert
    decoded,     \* codec specification: what convert of part_002 produced
    decodedRow,  \* codec specification: what convert of part_001 produced
    assignmentText, \* sanitizer specification: the text of a document, a sequence of characters
    safeText,    \* sanitizer specification: the text placed in the payload
    safeAgain,   \* sanitizer specification: the same steps applied to safeText
    stage,       \* pipeline driver: the script it runs or the line it is at
    exits,       \* pipeline driver: the scripts run so far and how each ended (history)
    TERMINATE_ON_COMPLETE, \* pipeline driver: the flag as read after part3
    instanceId,  \* part4: the id of the instance, as terminateEC2Instance determined it
    terminateSent, \* part4: a TerminateInstancesCommand was sent
    exitCode,    \* pipeline driver: the code it exited with
    described,   \* part4: what DescribeInstances answered, "unasked" before
    sent,        \* part4: the commands terminateEC2Instance sent, in order (history)
    p1,          \* part1: where the function under way is, "none" when not in use
    pdfFiles,    \* part1: the downloaded files handed to convertPDFsToText
    fileIx,      \* part1: index in pdfFiles of the file the loop is at
    convertedFiles, \* part1: the entries pushed for the files converted
    convertedDir,   \* part1: what ./converted holds, by file name
    tried,       \* part1: the files the loop body ran for and how each went (history)
    timeoutId,   \* invokeModelEndpoint: the timer of the attempt: none, pending, fired, cleared
    firedAt,     \* invokeModelEndpoint: the attempts during which the timer fired (history)
    setup,       \* part1: setupEnvironment and main: position, region, what was verified
    proc,        \* part3: the node process: none, running, crashed
    task,        \* part3: the position of each asynchronous call started at top level
    net,         \* part3: the requests sent and not served, the replies not delivered
    analysisData,   \* part3: the item of analysis_data with analyticsId 1
    homeData,    \* part3: the item of home_data, by what the scan it was made from saw
    scanSaw,     \* part3: what the scan of analysis_data returned to generateHomeDataSummary
    events       \* part3: the requests in the order the tables served them (history)

bvars == << variant, dir, table, pc, maxId, txtFiles, i, results, response, store, payload,
            attempt, ist, calls, hist, delays, modelResult, ierr, steps, visited >>
cvars == << plain, wire, decoded, decodedRow >>
svars == << assignmentText, safeText, safeAgain >>
dvars == << stage, exits, TERMINATE_ON_COMPLETE, instanceId, terminateSent, exitCode,
           described, sent >>
pvars == << p1, pdfFiles, fileIx, convertedFiles, convertedDir, tried >>
tvars == << timeoutId, firedAt >>
evars == << setup >>
avars == << proc, task, net, analysisData, homeData, scanSaw, events >>
vvars == << vIn, vOut, cvars, svars, dvars, pvars, tvars, evars, avars >>
vars  == << bvars, vvars >>

----------------------------------------------------------------------------
(* Chunks of text *)

Tok(k, w, n, s) == [k |-> k, w |-> w, n |-> n, s |-> s]
P(c)       == Tok(c, "", 0, <<>>)        \* punctuation or literal: { } [ ] : , null true false
Word(w)    == Tok("word", w, 0, <<>>)    \* an opaque run of characters
NumTok(n)  == Tok("num", "", n, <<>>)    \* a decimal integer literal
StrTok(s)  == Tok("str", "", 0, s)       \* a quoted string literal holding the text s

(* JavaScript values obtained from JSON, tagged by type *)

Undefined  == [t |-> "undefined", v |-> 0]
JNull      == [t |-> "null", v |-> 0]
JNum(n)    == [t |-> "num", v |-> n]
JBool(b)   == [t |-> "bool", v |-> b]
JStr(s)    == [t |-> "str", v |-> s]     \* s: a sequence of chunks
JList(l)   == [t |-> "list", v |-> l]
JMap(f)    == [t |-> "map", v |-> f]     \* f: a function from key names to values
EmptyMap   == [k \in {} |-> Undefined]

\* The key names that occur, in the order their members are serialized.
KeyOrder == << "analyticsId", "assignmentId", "gradeReceived", "aiGeneratedAnalytics",
               "plagarismAnalytics", "gradeReasoning", "remarks",
               "generated_text", "isAIUsed", "isPlagarised", "N", "S", "BOOL", "M", "L" >>

\* !x
Falsy(x) ==
    \/ x.t \in {"undefined", "null"}
    \/ (x.t = "num" /\ x.v = 0)
    \/ (x.t = "bool" /\ x.v = FALSE)
    \/ (x.t = "str" /\ x.v = <<>>)

\* x[k] where x is neither null nor undefined (a TypeError otherwise)
Get(x, k) == IF x.t = "map" /\ k \in DOMAIN x.v THEN x.v[k] ELSE Undefined

\* Reading a property of null or undefined throws a TypeError.
Nullish(x) == x.t \in {"undefined", "null"}

Put(f, k, x) == [j \in DOMAIN f \cup {k} |-> IF j = k THEN x ELSE f[j]]

----------------------------------------------------------------------------
(* JSON.parse: recursive descent over the chunks of a text *)

PFail == [ok |-> FALSE, val |-> Undefined, rest |-> <<>>]
POk(x, r) == [ok |-> TRUE, val |-> x, rest |-> r]

RECURSIVE ParseValue(_), ParseElems(_, _, _), ParseMembers(_, _, _), ElemsAfter(_, _),
          MembersAfter(_, _, _)

ParseValue(ts) ==
    IF ts = <<>> THEN PFail
    ELSE LET h == Head(ts)
             r == Tail(ts)
         IN CASE h.k = "null"  -> POk(JNull, r)
              [] h.k = "true"  -> POk(JBool(TRUE), r)
              [] h.k = "false" -> POk(JBool(FALSE), r)
              [] h.k = "num"   -> POk(JNum(h.n), r)
              [] h.k = "str"   -> POk(JStr(h.s), r)
              [] h.k = "["     -> ParseElems(r, <<>>, TRUE)
              [] h.k = "{"     -> ParseMembers(r, EmptyMap, TRUE)
              [] OTHER         -> PFail

ParseElems(ts, acc, first) ==
    IF ts = <<>> THEN PFail
    ELSE IF first /\ Head(ts).k = "]" THEN POk(JList(acc), Tail(ts))
    ELSE ElemsAfter(ParseValue(ts), acc)

\* After an element pv of a list: a comma and more elements, or the closing bracket.
ElemsAfter(pv, acc) ==
    IF ~pv.ok \/ pv.rest = <<>> THEN PFail
    ELSE IF Head(pv.rest).k = ","
         THEN ParseElems(Tail(pv.rest), Append(acc, pv.val), FALSE)
    ELSE IF Head(pv.rest).k = "]"
         THEN POk(JList(Append(acc, pv.val)), Tail(pv.rest))
    ELSE PFail

ParseMembers(ts, acc, first) ==
    IF ts = <<>> THEN PFail
    ELSE IF first /\ Head(ts).k = "}" THEN POk(JMap(acc), Tail(ts))
    ELSE IF Len(ts) < 3 THEN PFail
    ELSE IF ~(ts[1].k = "str" /\ Len(ts[1].s) = 1 /\ ts[1].s[1].k = "word" /\ ts[2].k = ":")
         THEN PFail
    ELSE MembersAfter(ParseValue(SubSeq(ts, 3, Len(ts))), ts[1].s[1].w, acc)

\* After the value pv of the member named key: a comma and more members, or the brace.
MembersAfter(pv, key, acc) ==
    IF ~pv.ok \/ pv.rest = <<>> THEN PFail
    ELSE IF Head(pv.rest).k = ","
         THEN ParseMembers(Tail(pv.rest), Put(acc, key, pv.val), FALSE)
    ELSE IF Head(pv.rest).k = "}"
         THEN POk(JMap(Put(acc, key, pv.val)), Tail(pv.rest))
    ELSE PFail

\* JSON.parse(text): ok, or a SyntaxError
WholeText(pv) ==
    IF pv.ok /\ pv.rest = <<>> THEN [ok |-> TRUE, val |-> pv.val]
    ELSE [ok |-> FALSE, val |-> Undefined]

JSONparse(ts) == WholeText(ParseValue(ts))

(* JSON.stringify *)

RECURSIVE JSONstringify(_), StringifyElems(_, _), StringifyMembers(_, _, _)

JSONstringify(x) ==
    CASE x.t = "null" -> << P("null") >>
      [] x.t = "bool" -> << IF x.v THEN P("true") ELSE P("false") >>
      [] x.t = "num"  -> << NumTok(x.v) >>
      [] x.t = "str"  -> << StrTok(x.v) >>
      [] x.t = "list" -> << P("[") >> \o StringifyElems(x.v, 1) \o << P("]") >>
      [] x.t = "map"  -> << P("{") >> \o StringifyMembers(x.v, 1, TRUE) \o << P("}") >>
      [] OTHER        -> << >>

StringifyElems(l, ix) ==
    IF ix > Len(l) THEN << >>
    ELSE (IF ix > 1 THEN << P(",") >> ELSE << >>)
         \o JSONstringify(l[ix]) \o StringifyElems(l, ix + 1)

StringifyMembers(f, ix, first) ==
    IF ix > Len(KeyOrder) THEN << >>
    ELSE IF KeyOrder[ix] \notin DOMAIN f THEN StringifyMembers(f, ix + 1, first)
    ELSE (IF first THEN << >> ELSE << P(",") >>)
         \o << StrTok(<< Word(KeyOrder[ix]) >>), P(":") >>
         \o JSONstringify(f[KeyOrder[ix]])
         \o StringifyMembers(f, ix + 1, FALSE)

\* s.substring(0, n)
Substring(s, n) == IF Len(s) <= n THEN s ELSE SubSeq(s, 1, n)

----------------------------------------------------------------------------
(* Errors: what a catch clause reads of a thrown value *)

Err(name, message, status, code) ==
    [name |-> name, message |-> message, status |-> status, code |-> code]
NoErr == Err("", <<>>, 0, "")

----------------------------------------------------------------------------
(* Result validator *)

required == << "analyticsId", "assignmentId", "gradeReceived", "aiGeneratedAnalytics",
               "plagarismAnalytics", "gradeReasoning", "remarks" >>

MissingField(field) ==
    Err("Error", << Word("Missing required field:"), Word(field) >>, 0, "")

TypeErrorRead(what, prop) ==
    Err("TypeError", << Word("Cannot read properties of"), Word(what),
                        Word("reading"), Word(prop) >>, 0, "")

RECURSIVE ValidateBackFrom(_, _)
\* The check running over the fields from the last to the first.
ValidateBackFrom(result, ix) ==
    IF ix > Len(required) THEN [ok |-> TRUE, err |-> NoErr]
    ELSE IF Falsy(Get(result, required[Len(required) + 1 - ix]))
         THEN [ok |-> FALSE, err |-> MissingField(required[Len(required) + 1 - ix])]
         ELSE ValidateBackFrom(result, ix + 1)

RECURSIVE ValidateFrom(_, _)
ValidateFrom(result, ix) ==
    IF ix > Len(required) THEN [ok |-> TRUE, err |-> NoErr]
    ELSE IF Falsy(Get(result, required[ix]))
         THEN [ok |-> FALSE, err |-> MissingField(required[ix])]
         ELSE ValidateFrom(result, ix + 1)

\* The validator as a presence check: a field fails only when it is absent.
validatePresence(result) ==
    IF Nullish(result)
    THEN [ok |-> FALSE, err |-> TypeErrorRead(result.t, required[1])]
    ELSE IF \E k \in 1 .. Len(required) : Get(result, required[k]) = Undefined
         THEN [ok |-> FALSE,
               err |-> MissingField(required[CHOOSE k \in 1 .. Len(required) :
                          /\ Get(result, required[k]) = Undefined
                          /\ \A j \in 1 .. (k - 1) : Get(result, required[j]) # Undefined])]
         ELSE [ok |-> TRUE, err |-> NoErr]

\* validateDynamoDBStructure(result): returns true or throws
validateDynamoDBStructure(result) ==
    IF Nullish(result)
    THEN [ok |-> FALSE, err |-> TypeErrorRead(result.t, required[1])]
    ELSE ValidateFrom(result, 1)

----------------------------------------------------------------------------
(* The transport: what one network call to the grading endpoint ends in *)

MAX_RETRIES == 3
TIMEOUT_MS == 60000
BACKOFF_BASE_MS == 1000
SNIPPET_CHARS == 200

Response(text) == [kind |-> "response", status |-> 200, text |-> text]
HttpError(st)  == [kind |-> "httpError", status |-> st, text |-> <<>>]
TimedOut       == [kind |-> "timeout", status |-> 0, text |-> <<>>]
NetworkDown    == [kind |-> "network", status |-> 0, text |-> <<>>]

\* axios.post rejects for a status outside 2xx, for a timeout (code ECONNABORTED)
\* and for a connection failure; otherwise response.data is the body parsed as JSON
\* or, when it does not parse, the body text itself.
AxiosStatusError(st) ==
    Err("AxiosError", << Word("Request failed with status code"), NumTok(st) >>, st,
        "ERR_BAD_RESPONSE")
AxiosTimeout ==
    Err("AxiosError", << Word("timeout of"), NumTok(TIMEOUT_MS), Word("ms exceeded") >>, 0,
        "ECONNABORTED")
AxiosNetwork == Err("AxiosError", << Word("connect ECONNREFUSED") >>, 0, "ECONNREFUSED")
SyntaxError  == Err("SyntaxError", << Word("Unexpected token in JSON") >>, 0, "")

ParsedOr(r, text) == IF r.ok THEN r.val ELSE JStr(text)

AxiosData(text) == ParsedOr(JSONparse(text), text)

\* String(x), as JSON.parse applies it to an argument that is not a string
RECURSIVE ToStringJS(_), JoinJS(_, _)
ToStringJS(x) ==
    CASE x.t = "str"  -> x.v
      [] x.t = "num"  -> << NumTok(x.v) >>
      [] x.t = "bool" -> << IF x.v THEN P("true") ELSE P("false") >>
      [] x.t = "null" -> << P("null") >>
      [] x.t = "list" -> JoinJS(x.v, 1)
      [] x.t = "map"  -> << Word("[object Object]") >>
      [] OTHER        -> << Word("undefined") >>
JoinJS(l, ix) ==
    IF ix > Len(l) THEN << >>
    ELSE (IF ix > 1 THEN << P(",") >> ELSE << >>)
         \o (IF Nullish(l[ix]) THEN << >> ELSE ToStringJS(l[ix]))
         \o JoinJS(l, ix + 1)

Thrown(e)   == [ok |-> FALSE, val |-> Undefined, err |-> e]
Returned(x) == [ok |-> TRUE, val |-> x, err |-> NoErr]

UnknownFormat(result) ==
    Err("Error", << Word("Unknown response format. Expected DynamoDB JSON or SageMaker array. Got:") >>
                 \o Substring(JSONstringify(result), SNIPPET_CHARS), 0, "")

\* JSON.parse(result[0].generated_text) and the return of what it yields
ParsedText(g) == IF g.ok THEN Returned(g.val) ELSE Thrown(SyntaxError)

\* ReconcileShape returning the generated_text string itself, not what it parses to.
ReconcileShapeUnparsed(result) ==
    IF Nullish(result) THEN Thrown(TypeErrorRead(result.t, "analyticsId"))
    ELSE IF ~Falsy(Get(result, "analyticsId"))
            /\ Get(Get(result, "analyticsId"), "N") # Undefined
         THEN Returned(result)
    ELSE IF result.t = "list" /\ Len(result.v) > 0
         THEN IF Nullish(result.v[1])
              THEN Thrown(TypeErrorRead(result.v[1].t, "generated_text"))
              ELSE IF ~Falsy(Get(result.v[1], "generated_text"))
                   THEN Returned(Get(result.v[1], "generated_text"))
                   ELSE Thrown(UnknownFormat(result))
    ELSE Thrown(UnknownFormat(result))

\* part_001, lines 111-123: the shape of the decoded body decides
ReconcileShape(result) ==
    IF Nullish(result) THEN Thrown(TypeErrorRead(result.t, "analyticsId"))
    ELSE IF ~Falsy(Get(result, "analyticsId"))
            /\ Get(Get(result, "analyticsId"), "N") # Undefined
         THEN Returned(result)
    ELSE IF result.t = "list" /\ Len(result.v) > 0
         THEN IF Nullish(result.v[1])
              THEN Thrown(TypeErrorRead(result.v[1].t, "generated_text"))
              ELSE IF ~Falsy(Get(result.v[1], "generated_text"))
                   THEN ParsedText(JSONparse(ToStringJS(Get(result.v[1], "generated_text"))))
                   ELSE Thrown(UnknownFormat(result))
    ELSE Thrown(UnknownFormat(result))

\* typeof raw === 'string' ? JSON.parse(raw) : raw, and what follows
DecodedBody(r) == IF ~r.ok THEN Thrown(SyntaxError) ELSE ReconcileShape(r.val)

\* part_001, lines 97-132: from the received response to the parsed result
ParseLambdaResponse(status, raw) ==
    IF status >= 400
    THEN Thrown(Err("Error", << Word("Lambda returned HTTP"), NumTok(status), Word(":") >>
                             \o JSONstringify(raw), 0, ""))
    ELSE DecodedBody(IF raw.t = "str" THEN JSONparse(raw.v) ELSE [ok |-> TRUE, val |-> raw])

\* What the try block of one attempt ends in (part_001, lines 64-136).
AttemptBody(o) ==
    CASE o.kind = "response"  -> ParseLambdaResponse(o.status, AxiosData(o.text))
      [] o.kind = "httpError" -> Thrown(AxiosStatusError(o.status))
      [] o.kind = "timeout"   -> Thrown(AxiosTimeout)
      [] OTHER                -> Thrown(AxiosNetwork)

\* Retryable taking every HTTP error status for a transient one.
RetryableAnyStatus(error) == error.status >= 400 \/ error.code = "ECONNABORTED"

\* error.response?.status === 502 || error.code === 'ECONNABORTED'
Retryable(error) == error.status = 502 \/ error.code = "ECONNABORTED"

\* Exhausted without the cause.
ExhaustedWithoutCause(error) ==
    Err("Error", << Word("Lambda invocation failed after"), NumTok(MAX_RETRIES),
                    Word("attempts") >>, 0, "")

Exhausted(error) ==
    Err("Error", << Word("Lambda invocation failed after"), NumTok(MAX_RETRIES),
                    Word("attempts:") >> \o error.message, 0, "")

\* One pass of the retry loop (part_001, lines 63-156) given how the call ended:
\* return the parsed result, wait backoffMs and go round again, or throw.
\* AfterAttempt with the bound of the retry test off by one.
AfterAttemptOneMore(att, b) ==
    IF b.ok THEN [kind |-> "return", val |-> b.val, err |-> NoErr, backoffMs |-> 0]
    ELSE IF att <= MAX_RETRIES /\ Retryable(b.err)
         THEN [kind |-> "retry", val |-> Undefined, err |-> b.err,
               backoffMs |-> BACKOFF_BASE_MS * att]
    ELSE IF att = MAX_RETRIES
         THEN [kind |-> "throw", val |-> Undefined, err |-> Exhausted(b.err), backoffMs |-> 0]
    ELSE [kind |-> "throw", val |-> Undefined, err |-> b.err, backoffMs |-> 0]

\* AfterAttempt retrying a transient failure on the last attempt as well.
AfterAttemptAlwaysRetry(att, b) ==
    IF b.ok THEN [kind |-> "return", val |-> b.val, err |-> NoErr, backoffMs |-> 0]
    ELSE IF Retryable(b.err)
         THEN [kind |-> "retry", val |-> Undefined, err |-> b.err,
               backoffMs |-> BACKOFF_BASE_MS * att]
    ELSE IF att = MAX_RETRIES
         THEN [kind |-> "throw", val |-> Undefined, err |-> Exhausted(b.err), backoffMs |-> 0]
    ELSE [kind |-> "throw", val |-> Undefined, err |-> b.err, backoffMs |-> 0]

\* AfterAttempt with the same delay before every retry.
AfterAttemptFlatDelay(att, b) ==
    IF b.ok THEN [kind |-> "return", val |-> b.val, err |-> NoErr, backoffMs |-> 0]
    ELSE IF att < MAX_RETRIES /\ Retryable(b.err)
         THEN [kind |-> "retry", val |-> Undefined, err |-> b.err,
               backoffMs |-> BACKOFF_BASE_MS]
    ELSE IF att = MAX_RETRIES
         THEN [kind |-> "throw", val |-> Undefined, err |-> Exhausted(b.err), backoffMs |-> 0]
    ELSE [kind |-> "throw", val |-> Undefined, err |-> b.err, backoffMs |-> 0]

AfterAttempt(att, b) ==
    IF b.ok THEN [kind |-> "return", val |-> b.val, err |-> NoErr, backoffMs |-> 0]
    ELSE IF att < MAX_RETRIES /\ Retryable(b.err)
         THEN [kind |-> "retry", val |-> Undefined, err |-> b.err,
               backoffMs |-> BACKOFF_BASE_MS * att]
    ELSE IF att = MAX_RETRIES
         THEN [kind |-> "throw", val |-> Undefined, err |-> Exhausted(b.err), backoffMs |-> 0]
    ELSE [kind |-> "throw", val |-> Undefined, err |-> b.err, backoffMs |-> 0]

RetryStep(att, o) == AfterAttempt(att, AttemptBody(o))

\* part2_Sagemaker.js, lines 118-168: one call, JSON.parse of the body, rethrow.
SageMakerError(o) ==
    CASE o.kind = "httpError" ->
            Err("ModelError", << Word("Received server error"), NumTok(o.status) >>, o.status, "")
      [] o.kind = "timeout" -> Err("TimeoutError", << Word("socket timed out") >>, 0, "")
      [] OTHER -> Err("Error", << Word("connect ECONNREFUSED") >>, 0, "ECONNREFUSED")

ParsedBody(r) ==
    IF r.ok THEN [kind |-> "return", val |-> r.val, err |-> NoErr, backoffMs |-> 0]
    ELSE [kind |-> "throw", val |-> Undefined, err |-> SyntaxError, backoffMs |-> 0]

PlainStep(o) ==
    IF o.kind = "response" THEN ParsedBody(JSONparse(o.text))
    ELSE [kind |-> "throw", val |-> Undefined, err |-> SageMakerError(o), backoffMs |-> 0]

InvokeStep(v, att, o) == IF v = "retry" THEN RetryStep(att, o) ELSE PlainStep(o)


----------------------------------------------------------------------------
(* The inputs the environment can supply *)

WireN(n) == JMap([N |-> JStr(<< NumTok(n) >>)])
WireS(w) == JMap([S |-> JStr(<< Word(w) >>)])
WireAI   == JMap([M |-> JMap([isAIUsed |-> JMap([BOOL |-> JBool(TRUE)])])])
WirePlag == JMap([M |-> JMap([isPlagarised |-> JMap([BOOL |-> JBool(FALSE)])])])

\* A complete result in typed-attribute form, with the given gradeReceived.
FullResult(grade) ==
    [analyticsId |-> WireN(1), assignmentId |-> WireN(7), gradeReceived |-> grade,
     aiGeneratedAnalytics |-> WireAI, plagarismAnalytics |-> WirePlag,
     gradeReasoning |-> WireS("sound"), remarks |-> WireS("fine")]

Without(f, k) == [j \in DOMAIN f \ {k} |-> f[j]]

\* The legacy wrapping of x: [ { "generated_text": "<JSON text of x>" } ]
Legacy(x) == JList(<< JMap([generated_text |-> JStr(JSONstringify(x))]) >>)

\* Bodies with a top-level analyticsId typed attribute.
CanonicalBodies ==
    { JMap(FullResult(WireN(85))),
      JMap(FullResult(WireN(0))),
      JMap(FullResult(JNum(0))),
      JMap(Without(FullResult(WireN(85)), "gradeReceived")),
      JMap(Without(FullResult(WireN(85)), "assignmentId")),
      JMap(Without(FullResult(WireN(85)), "remarks")) }

LegacyBodies == { Legacy(x) : x \in CanonicalBodies }

\* Bodies of neither shape, and legacy wrappings of something else.
OtherBodies ==
    { JNull, JNum(5), JList(<< >>), JList(<< JNull >>), JList(<< JMap(EmptyMap) >>),
      JList(<< JMap([generated_text |-> JStr(<< >>)]) >>),
      JMap(Without(FullResult(WireN(85)), "analyticsId")),
      JMap([analyticsId |-> JNum(0)]),
      Legacy(JNull),
      JList(<< JMap([generated_text |-> JStr(<< Word("not json") >>)]) >>),
      JList(<< JMap([generated_text |-> JNum(5)]) >>),
      JStr(JSONstringify(JMap(FullResult(WireN(85))))) }

Bodies == CanonicalBodies \cup LegacyBodies \cup OtherBodies

NotJson == << Word("<html>Bad Gateway</html>") >>

\* The body texts: the JSON text of each body, and one text that is not JSON.
BodyTexts == { JSONstringify(b) : b \in Bodies } \cup { NotJson }

\* Every way one call can end: used where a single invocation is explored.
Outcomes ==
    { Response(t) : t \in BodyTexts }
    \cup { HttpError(502), HttpError(404), HttpError(500), TimedOut, NetworkDown }

\* The ways a call can end in a batch run: one body for each way a document can
\* fare (stored, rejected by the validator, not storable, not decodable), and the
\* retried and the not retried transport failures.
BatchBodies ==
    { JMap(FullResult(WireN(85))), JMap(FullResult(WireN(0))), JMap(FullResult(JNum(0))),
      JMap(Without(FullResult(WireN(85)), "assignmentId")),
      JMap(Without(FullResult(WireN(85)), "remarks")),
      JNull, Legacy(JMap(FullResult(WireN(85)))), Legacy(JNull) }

BatchOutcomes ==
    { Response(JSONstringify(b)) : b \in BatchBodies }
    \cup { Response(NotJson), HttpError(502), HttpError(404), TimedOut }

\* File names: chunks, the last one the extension.
AllNames == << << NumTok(7), Word(".txt") >>, << NumTok(8), Word(".txt") >>,
               << NumTok(9), Word(".txt") >>, << Word("abc"), Word(".txt") >>,
               << NumTok(7), Word(".md") >> >>

MaxFiles == 2

RECURSIVE Pick(_, _)
\* The names of AllNames at the positions in S, in order, from position ix on.
Pick(S, ix) ==
    IF ix > Len(AllNames) THEN << >>
    ELSE (IF ix \in S THEN << AllNames[ix] >> ELSE << >>) \o Pick(S, ix + 1)

Listings == { Pick(S, 1) : S \in { T \in SUBSET (1 .. Len(AllNames)) : Cardinality(T) <= MaxFiles } }

\* Contents of the result table before the run.
Tables == { << >>, << [analyticsId |-> WireN(3), assignmentId |-> WireN(7)] >>,
            << [analyticsId |-> WireS("abc")] >> }


----------------------------------------------------------------------------
(* Numbers, file names, and the scan of the table *)

NaN    == [t |-> "nan", v |-> 0]
NegInf == [t |-> "neginf", v |-> 0]

\* A number that is not an integer: whole.frac
Fraction(whole, frac) == [t |-> "fraction", v |-> << whole, frac >>]

RECURSIVE HexValue(_)
\* The value of the decimal digits of n read as hexadecimal digits.
HexValue(n) == IF n < 10 THEN n ELSE (n % 10) + 16 * HexValue(n \div 10)

RECURSIVE Pow10(_)
Pow10(e) == IF e = 0 THEN 1 ELSE 10 * Pow10(e - 1)

\* Number(s) of a string: the StringNumericLiteral grammar. Empty or blank is 0;
\* decimal digits, digits.digits, 0x digits and digits e digits are numbers;
\* anything else is NaN.
NumberOfString(s) ==
    IF s = << >> \/ s = << Word(" ") >> THEN JNum(0)
    ELSE IF Len(s) = 1 /\ s[1].k = "num" THEN JNum(s[1].n)
    ELSE IF Len(s) = 3 /\ s[1].k = "num" /\ s[2] = Word(".") /\ s[3].k = "num"
         THEN IF s[3].n = 0 THEN JNum(s[1].n) ELSE Fraction(s[1].n, s[3].n)
    ELSE IF Len(s) = 2 /\ s[1] = Word("0x") /\ s[2].k = "num" THEN JNum(HexValue(s[2].n))
    ELSE IF Len(s) = 3 /\ s[1].k = "num" /\ s[2] = Word("e") /\ s[3].k = "num"
         THEN JNum(s[1].n * Pow10(s[3].n))
    ELSE NaN

RECURSIVE NumberJS(_)
\* Number(x); a list converts through its string: [] is 0, [e] is Number(e)
NumberJS(x) ==
    CASE x.t = "num"  -> x
      [] x.t = "str"  -> NumberOfString(x.v)
      [] x.t = "bool" -> JNum(IF x.v THEN 1 ELSE 0)
      [] x.t = "null" -> JNum(0)
      [] x.t = "list" -> IF x.v = << >> THEN JNum(0)
                         ELSE IF Len(x.v) = 1 /\ x.v[1].t \in {"num", "str", "list"}
                              THEN NumberJS(x.v[1])
                         ELSE IF Len(x.v) = 1 /\ x.v[1].t \in {"null", "undefined"}
                              THEN JNum(0)
                         ELSE NaN
      [] OTHER        -> NaN

\* a > b for the numbers the scan compares (b is -Infinity or an integer)
Greater(a, b) == a.t = "num" /\ (b.t = "neginf" \/ (b.t = "num" /\ a.v > b.v))

\* n + 1
Plus1(n) == IF n.t = "num" THEN JNum(n.v + 1) ELSE n

\* A thrown error, as the value of an expression.
JThrow(name) == [t |-> "throw", v |-> name]
IsThrow(x) == x.t = "throw"

\* The keys for...in enumerates: the members of an object, the indices of a list
\* or of a string, none for a number or a boolean.
IndexKeys == << "0", "1", "2" >>
IndexOf(key) == CHOOSE ix \in 1 .. Len(IndexKeys) : IndexKeys[ix] = key
OwnKeys(x) ==
    CASE x.t = "map" -> DOMAIN x.v
      [] x.t \in {"list", "str"} -> { IndexKeys[ix] : ix \in 1 .. Len(x.v) }
      [] OTHER -> { }

\* x[key] for one of those keys
Prop(x, key) ==
    CASE x.t = "map"  -> x.v[key]
      [] x.t = "list" -> x.v[IndexOf(key)]
      [] OTHER        -> JStr(<< x.v[IndexOf(key)] >>)

\* The object with the members f, or the error thrown while they were computed.
MapOrThrow(f) ==
    IF \E k \in DOMAIN f : IsThrow(f[k])
    THEN f[CHOOSE k \in DOMAIN f : IsThrow(f[k])]
    ELSE JMap(f)

\* The list l, or the error thrown while its elements were computed.
ListOrThrow(l) ==
    IF \E k \in 1 .. Len(l) : IsThrow(l[k])
    THEN l[CHOOSE k \in 1 .. Len(l) : IsThrow(l[k])]
    ELSE JList(l)

RECURSIVE convert(_), ConvertAttr(_)
\* The branches of convert's loop body for one attribute value val: val.S of a
\* null val is a TypeError, and so is val.L.map when val.L is not a list.
ConvertAttr(val) ==
    IF Nullish(val) THEN JThrow("TypeError")
    ELSE IF Get(val, "S") # Undefined THEN Get(val, "S")
    ELSE IF Get(val, "N") # Undefined THEN NumberJS(Get(val, "N"))
    ELSE IF Get(val, "BOOL") # Undefined THEN Get(val, "BOOL")
    ELSE IF Get(val, "M") # Undefined THEN convert(Get(val, "M"))
    ELSE IF Get(val, "L") # Undefined
         THEN IF Get(val, "L").t = "list"
              THEN ListOrThrow([ix \in 1 .. Len(Get(val, "L").v) |-> convert(Get(val, "L").v[ix])])
              ELSE JThrow("TypeError")
    ELSE val

\* convert(item) of part_001: a map of typed attributes to plain values
convert(item) ==
    IF Falsy(item) THEN JNull
    ELSE MapOrThrow([key \in OwnKeys(item) |-> ConvertAttr(Prop(item, key))])

TypeKeys == { "S", "N", "BOOL", "M", "L" }

RECURSIVE convertWrapper(_), UnwrapTyped(_)
\* convert of part_002, lines 642-648: item is a typed value wrapper
UnwrapTyped(item) ==
    IF Get(item, "S") # Undefined THEN Get(item, "S")
    ELSE IF Get(item, "N") # Undefined THEN NumberJS(Get(item, "N"))
    ELSE IF Get(item, "BOOL") # Undefined THEN Get(item, "BOOL")
    ELSE IF Get(item, "M") # Undefined THEN convertWrapper(Get(item, "M"))
    ELSE IF Get(item, "L").t = "list"
         THEN ListOrThrow([ix \in 1 .. Len(Get(item, "L").v) |-> convertWrapper(Get(item, "L").v[ix])])
         ELSE JThrow("TypeError")

\* convert(item) of part_002. On a non-empty string the for...in loop calls
\* convert on each one-character string, which calls convert on its own first
\* character, and so on: the stack overflows with a RangeError.
convertWrapper(item) ==
    IF Falsy(item) THEN JNull
    ELSE IF item.t = "map" /\ DOMAIN item.v \cap TypeKeys # { } THEN UnwrapTyped(item)
    ELSE IF item.t = "str" THEN JThrow("RangeError")
    ELSE MapOrThrow([key \in OwnKeys(item) |-> convertWrapper(Prop(item, key))])

\* String(n) for an integer n
StringOfNumber(n) == JStr(<< NumTok(n.v) >>)

RECURSIVE toDynamoDBFormat(_), EncodeVal(_), EncodeItem(_)
\* toDynamoDBFormat, lines 673-682: an element of a list
EncodeItem(item) ==
    CASE item.t = "str"  -> JMap([S |-> item])
      [] item.t = "num"  -> JMap([N |-> StringOfNumber(item)])
      [] item.t = "bool" -> JMap([BOOL |-> item])
      [] item.t \in {"map", "list", "null"} -> JMap([M |-> toDynamoDBFormat(item)])
      [] OTHER -> JMap([S |-> JStr(<< Word("undefined") >>)])

\* toDynamoDBFormat, lines 670-690: the value of one key
EncodeVal(val) ==
    CASE val.t = "str"  -> JMap([S |-> val])
      [] val.t = "num"  -> JMap([N |-> StringOfNumber(val)])
      [] val.t = "bool" -> JMap([BOOL |-> val])
      [] val.t = "list" -> JMap([L |-> JList([ix \in 1 .. Len(val.v) |-> EncodeItem(val.v[ix])])])
      [] val.t \in {"map", "null"} -> JMap([M |-> toDynamoDBFormat(val)])
      [] OTHER -> JMap([S |-> JStr(<< Word("undefined") >>)])

\* toDynamoDBFormat(obj)
toDynamoDBFormat(obj) ==
    IF Nullish(obj) THEN JNull
    ELSE JMap([key \in OwnKeys(obj) |-> EncodeVal(Prop(obj, key))])

\* if (!Number.isNaN(id) && id > maxId) maxId = id
HigherId(id, m) == IF id.t # "nan" /\ Greater(id, m) THEN id ELSE m

RECURSIVE MaxIdFrom(_, _, _)
\* handler, lines 228-232: the loop over the converted rows
MaxIdFrom(rows, ix, m) ==
    IF ix > Len(rows) THEN m
    ELSE MaxIdFrom(rows, ix + 1, HigherId(NumberJS(Get(convert(JMap(rows[ix])), "analyticsId")), m))

Exts == { ".txt", ".md" }

\* path.extname(filename)
ExtName(f) ==
    IF Len(f) >= 2 /\ f[Len(f)].k = "word" /\ f[Len(f)].w \in Exts THEN << f[Len(f)] >> ELSE << >>

RECURSIVE ReplaceFirst(_, _)
\* s.replace(pat, ''): the first occurrence of the chunk removed
ReplaceFirst(s, pat) ==
    IF pat = << >> \/ s = << >> THEN s
    ELSE IF Head(s) = pat[1] THEN Tail(s)
    ELSE << Head(s) >> \o ReplaceFirst(Tail(s), pat)

\* f.endsWith('.txt')
EndsWithTxt(f) == f # << >> /\ f[Len(f)] = Word(".txt")

FilterTxt(files) == SelectSeq(files, EndsWithTxt)

\* readAssignmentFromLocal: the id of a file that was read
AssignmentId(filename) == ReplaceFirst(filename, ExtName(filename))

\* The id test letting every id through.
IsNaNIdNever(id) == FALSE

\* isNaN(Number(assignmentId))
IsNaNId(id) == NumberJS(JStr(id)).t = "nan"

LoadError(filename) ==
    Err("Error", << Word("Failed to read file converted/") >> \o filename
                 \o << Word(": ENOENT: no such file or directory") >>, 0, "")

StoreError == Err("ValidationException", << Word("One or more parameter values were invalid") >>, 0, "")

----------------------------------------------------------------------------
(* The batch handler *)

NoResponse == [statusCode |-> 0, body |-> << >>]
NoPayload  == [assignmentId |-> << >>, analyticsId |-> Undefined]
NoSteps    == [file |-> << >>, load |-> "none", invoke |-> "none", validate |-> "none",
               put |-> "none", written |-> FALSE, err |-> NoErr, done |-> FALSE]
VIdle      == [done |-> FALSE, ok |-> FALSE, err |-> NoErr]

Outcome(id, status, message) == [assignmentId |-> id, status |-> status, error |-> message]

\* A value not computed yet, and the codec not in use.
NotYet == [t |-> "none", v |-> 0]
CodecIdle == plain = NotYet /\ wire = NotYet /\ decoded = NotYet /\ decodedRow = NotYet
SanitizerIdle == assignmentText = << >> /\ safeText = << >> /\ safeAgain = << >>

\* The functions of part1 and part3 not in use.
NoFile == [kind |-> "none", totalFiles |-> 0, successfulConversions |-> 0]
EmptyDir == [f \in { } |-> NoFile]
\* setupEnvironment not called.
NoEnv == [at |-> "none", region |-> "", pdftotext |-> FALSE, diagnose |-> FALSE,
          verified |-> "no", detected |-> "", diagnosed |-> FALSE]

\* The asynchronous calls of part3.
Tasks == { "stray", "main", "home" }

AggregationIdle ==
    /\ proc = "none"
    /\ task = [t \in Tasks |-> "idle"]
    /\ net = { }
    /\ analysisData = "none"
    /\ homeData = "none"
    /\ scanSaw = "unseen"
    /\ events = << >>

ScriptsIdle ==
    /\ p1 = "none"
    /\ pdfFiles = << >>
    /\ fileIx = 0
    /\ convertedFiles = << >>
    /\ convertedDir = EmptyDir
    /\ tried = << >>
    /\ timeoutId = "none"
    /\ firedAt = { }
    /\ setup = NoEnv
    /\ AggregationIdle

\* The pipeline driver not in use; NoExit while a process has not exited.
NoExit == 0 - 1
DriverIdle ==
    /\ stage = "none"
    /\ exits = << >>
    /\ TERMINATE_ON_COMPLETE = "unread"
    /\ instanceId = Undefined
    /\ terminateSent = FALSE
    /\ exitCode = NoExit
    /\ described = "unasked"
    /\ sent = << >>

Init ==
    /\ variant \in {"retry", "plain"}
    /\ dir \in Listings
    /\ table \in Tables
    /\ pc = "scan"
    /\ maxId = NegInf
    /\ txtFiles = << >>
    /\ i = 0
    /\ results = << >>
    /\ response = NoResponse
    /\ store = << >>
    /\ payload = NoPayload
    /\ attempt = 0
    /\ ist = "idle"
    /\ calls = 0
    /\ hist = << >>
    /\ delays = << >>
    /\ modelResult = Undefined
    /\ ierr = NoErr
    /\ steps = NoSteps
    /\ visited = << >>
    /\ vIn = Undefined
    /\ vOut = VIdle
    /\ CodecIdle
    /\ SanitizerIdle
    /\ DriverIdle
    /\ ScriptsIdle

\* The validation call commented out in both variants.
ValidationNowhere(v) == FALSE

\* The validator runs in the plain variant and is commented out in the retrying one.
ValidationEnabled(v) == v = "plain"

\* The analyticsId put in the request: maxId + 1 (part_001) or maxId (part2_Sagemaker.js).
RequestAnalyticsId(v, m) == IF v = "retry" THEN Plus1(m) ELSE m

\* NextFile with a failed document ending the loop.
NextFileStopsAtFailure(newResults) ==
    /\ results' = newResults
    /\ IF i = Len(txtFiles)
          \/ (Len(newResults) > Len(results) /\ newResults[Len(newResults)].status = "FAILED")
       THEN /\ pc' = "done"
            /\ response' = [statusCode |-> 200, body |-> newResults]
            /\ i' = i
       ELSE /\ pc' = "load"
            /\ i' = i + 1
            /\ UNCHANGED response

\* The end of one pass of the for loop: the next file, or the report.
NextFile(newResults) ==
    /\ results' = newResults
    /\ IF i = Len(txtFiles)
       THEN /\ pc' = "done"
            /\ response' = [statusCode |-> 200, body |-> newResults]
            /\ i' = i
       ELSE /\ pc' = "load"
            /\ i' = i + 1
            /\ UNCHANGED response

\* const raw = await dynamodb.send(scan), then the search for maxId
Scan(ok) ==
    /\ pc = "scan"
    /\ IF ok
       THEN /\ maxId' = MaxIdFrom(table, 1, NegInf)
            /\ pc' = "list"
       ELSE /\ pc' = "crashed"
            /\ UNCHANGED maxId
    /\ UNCHANGED << variant, dir, table, txtFiles, i, results, response, store, payload,
                    attempt, ist, calls, hist, delays, modelResult, ierr, steps, visited, vvars >>

\* const files = await fsp.readdir(...), the filter and the empty check
ListFiles(ok) ==
    /\ pc = "list"
    /\ IF ~ok
       THEN /\ pc' = "done"
            /\ response' = [statusCode |-> 500, body |-> << >>]
            /\ UNCHANGED << txtFiles, i >>
       ELSE /\ txtFiles' = FilterTxt(dir)
            /\ IF txtFiles' = << >>
               THEN /\ pc' = "done"
                    /\ response' = [statusCode |-> 400, body |-> << >>]
                    /\ UNCHANGED i
               ELSE /\ pc' = "load"
                    /\ i' = 1
                    /\ UNCHANGED response
    /\ UNCHANGED << variant, dir, table, maxId, results, store, payload,
                    attempt, ist, calls, hist, delays, modelResult, ierr, steps, visited, vvars >>

\* The id the outer catch reports: file.replace('.txt', '')
CatchId(file) == ReplaceFirst(file, << Word(".txt") >>)

\* The loop body from the await of readAssignmentFromLocal(file) to the first network call
LoadFile(ok, file, id) ==
    IF ~ok
    THEN /\ steps' = [NoSteps EXCEPT !.file = file, !.load = "fail", !.err = LoadError(file),
                                 !.done = TRUE]
         /\ NextFile(Append(results, Outcome(CatchId(file), "FAILED", LoadError(file).message)))
         /\ UNCHANGED << payload, attempt, ist, calls, hist, delays, modelResult, ierr >>
    ELSE IF IsNaNId(id)
    THEN /\ steps' = [NoSteps EXCEPT !.file = file, !.load = "ok", !.done = TRUE]
         /\ NextFile(results)
         /\ UNCHANGED << payload, attempt, ist, calls, hist, delays, modelResult, ierr >>
    ELSE /\ steps' = [NoSteps EXCEPT !.file = file, !.load = "ok"]
         /\ payload' = [assignmentId |-> id, analyticsId |-> RequestAnalyticsId(variant, maxId)]
         /\ attempt' = 1
         /\ ist' = "inflight"
         /\ calls' = 1
         /\ hist' = << >>
         /\ delays' = << >>
         /\ modelResult' = Undefined
         /\ ierr' = NoErr
         /\ pc' = "invoke"
         /\ UNCHANGED << i, results, response >>

\* await readAssignmentFromLocal(file), the isNaN check, and the first network call
Load(ok) ==
    /\ pc = "load"
    /\ LoadFile(ok, txtFiles[i], AssignmentId(txtFiles[i]))
    /\ visited' = Append(visited, txtFiles[i])
    /\ UNCHANGED << variant, dir, table, maxId, txtFiles, store, vvars >>

\* handler, lines after the invocation returned val: validation (v is its result),
\* then the put is issued, or the outer catch records the failure.
AfterValidate(val, v) ==
    IF v.ok
    THEN /\ steps' = [steps EXCEPT !.invoke = "ok",
                        !.validate = IF ValidationEnabled(variant) THEN "ok" ELSE "none"]
         /\ pc' = "save"
         /\ UNCHANGED << i, results, response >>
    ELSE /\ steps' = [steps EXCEPT !.invoke = "ok", !.validate = "fail", !.err = v.err,
                               !.done = TRUE]
         /\ NextFile(Append(results, Outcome(CatchId(txtFiles[i]), "FAILED", v.err.message)))

\* What the handler does with the step r of the invocation.
AfterStep(r) ==
    CASE r.kind = "retry" ->
           /\ ist' = "backoff"
           /\ delays' = Append(delays, r.backoffMs)
           /\ UNCHANGED << pc, i, results, response, modelResult, ierr, steps >>
      [] r.kind = "throw" ->
           /\ ist' = "thrown"
           /\ ierr' = r.err
           /\ steps' = [steps EXCEPT !.invoke = "fail", !.err = r.err, !.done = TRUE]
           /\ NextFile(Append(results, Outcome(CatchId(txtFiles[i]), "FAILED", r.err.message)))
           /\ UNCHANGED << delays, modelResult >>
      [] OTHER ->
           /\ ist' = "returned"
           /\ modelResult' = r.val
           /\ UNCHANGED << delays, ierr >>
           /\ AfterValidate(r.val, IF ValidationEnabled(variant)
                                   THEN validateDynamoDBStructure(r.val)
                                   ELSE [ok |-> TRUE, err |-> NoErr])

\* The network call ends in o: the rest of that attempt and, when the invocation
\* returns or throws, the handler up to its next await (validation, the put) or
\* to the end of the loop body.
Respond(o) ==
    /\ pc = "invoke"
    /\ ist = "inflight"
    /\ hist' = Append(hist, o)
    /\ AfterStep(InvokeStep(variant, attempt, o))
    /\ UNCHANGED << variant, dir, table, maxId, txtFiles, store, payload, attempt, calls,
                    visited, vvars >>

\* The backoff delay started and not awaited: the loop of the handler goes on to
\* the next file while the delay of this one runs.
BackoffNotAwaited ==
    /\ pc = "invoke"
    /\ ist = "backoff"
    /\ IF i < Len(txtFiles)
       THEN pc' = "load" /\ i' = i + 1 /\ UNCHANGED << attempt, calls, ist >>
       ELSE attempt' = attempt + 1 /\ calls' = calls + 1 /\ ist' = "inflight"
            /\ UNCHANGED << pc, i >>
    /\ UNCHANGED << variant, dir, table, maxId, txtFiles, results, response, store,
                    payload, hist, delays, modelResult, ierr, steps, visited, vvars >>

\* await new Promise(resolve => setTimeout(resolve, backoffMs)); continue: the next call
BackoffElapsed ==
    /\ pc = "invoke"
    /\ ist = "backoff"
    /\ attempt' = attempt + 1
    /\ calls' = calls + 1
    /\ ist' = "inflight"
    /\ UNCHANGED << variant, dir, table, pc, maxId, txtFiles, i, results, response, store,
                    payload, hist, delays, modelResult, ierr, steps, visited, vvars >>

\* The store takes an attribute map or rejects the request.
StoreAccepts(item) == item.t = "map"

\* saveAnalysisToDynamoDB after a put that succeeded: the log line reads
\* result.assignmentId.N, a TypeError when assignmentId is missing or null.
AfterPut(id, aid) ==
    IF Nullish(aid)
    THEN /\ steps' = [steps EXCEPT !.put = "ok", !.written = TRUE, !.done = TRUE]
         /\ NextFile(Append(results, Outcome(id, "FAILED", TypeErrorRead(aid.t, "N").message)))
    ELSE /\ steps' = [steps EXCEPT !.put = "ok", !.written = TRUE, !.done = TRUE]
         /\ NextFile(Append(results, Outcome(id, "SUCCESS", << >>)))

\* await saveAnalysisToDynamoDB(modelResult) and the push that follows it
SaveDone(ok) ==
    /\ pc = "save"
    /\ ok => StoreAccepts(modelResult)
    /\ IF ok
       THEN /\ store' = Append(store, modelResult)
            /\ AfterPut(payload.assignmentId, Get(modelResult, "assignmentId"))
       ELSE /\ steps' = [steps EXCEPT !.put = "fail", !.err = StoreError, !.done = TRUE]
            /\ NextFile(Append(results,
                   Outcome(payload.assignmentId, "FAILED", StoreError.message)))
            /\ UNCHANGED store
    /\ UNCHANGED << variant, dir, table, maxId, txtFiles, payload,
                    attempt, ist, calls, hist, delays, modelResult, ierr, visited, vvars >>

\* A batch run of either variant over a listing of up to MaxFiles names.
Next ==
    \/ \E ok \in BOOLEAN : Scan(ok)
    \/ \E ok \in BOOLEAN : ListFiles(ok)
    \/ \E ok \in BOOLEAN : Load(ok)
    \/ \E o \in BatchOutcomes : Respond(o)
    \/ BackoffElapsed
    \/ \E ok \in BOOLEAN : SaveDone(ok)

Spec == Init /\ [][Next]_vars

\* A run of the retrying variant over one document, each call ending in any of Outcomes.
InitInvoke ==
    /\ Init
    /\ variant = "retry"
    /\ dir = << AllNames[1] >>

NextInvoke ==
    \/ \E ok \in BOOLEAN : Scan(ok)
    \/ \E ok \in BOOLEAN : ListFiles(ok)
    \/ \E ok \in BOOLEAN : Load(ok)
    \/ \E o \in Outcomes : Respond(o)
    \/ BackoffElapsed
    \/ \E ok \in BOOLEAN : SaveDone(ok)

SpecInvoke == InitInvoke /\ [][NextInvoke]_vars


----------------------------------------------------------------------------
(* The validator on its own: one call of validateDynamoDBStructure on a result *)

\* The values a field of a result may hold; absent is Undefined.
FieldValues ==
    [ analyticsId          |-> { Undefined, JNull, WireN(1) },
      assignmentId         |-> { Undefined, JNum(0), WireN(7) },
      gradeReceived        |-> { Undefined, JNum(0), WireN(0), WireN(85) },
      aiGeneratedAnalytics |-> { Undefined, JBool(FALSE), WireAI },
      plagarismAnalytics   |-> { Undefined, JNull, WirePlag },
      gradeReasoning       |-> { Undefined, JStr(<< >>), WireS("sound") },
      remarks              |-> { Undefined, JStr(<< >>), JStr(<< Word("fine") >>) } ]

\* The map holding the fields of g that are not Undefined.
Present(g) == JMap([k \in { f \in DOMAIN g : g[f] # Undefined } |-> g[k]])

ValidatorInputs ==
    { Present(g) : g \in [ analyticsId : FieldValues.analyticsId,
                           assignmentId : FieldValues.assignmentId,
                           gradeReceived : FieldValues.gradeReceived,
                           aiGeneratedAnalytics : FieldValues.aiGeneratedAnalytics,
                           plagarismAnalytics : FieldValues.plagarismAnalytics,
                           gradeReasoning : FieldValues.gradeReasoning,
                           remarks : FieldValues.remarks ] }
    \cup { JNull, JNum(5), JStr(<< Word("text") >>), JList(<< >>) }

\* The handler not in use, at the position at.
HandlerIdle(at) ==
    /\ variant = "plain"
    /\ dir = << >>
    /\ table = << >>
    /\ pc = at
    /\ maxId = NegInf
    /\ txtFiles = << >>
    /\ i = 0
    /\ results = << >>
    /\ response = NoResponse
    /\ store = << >>
    /\ payload = NoPayload
    /\ attempt = 0
    /\ ist = "idle"
    /\ calls = 0
    /\ hist = << >>
    /\ delays = << >>
    /\ modelResult = Undefined
    /\ ierr = NoErr
    /\ steps = NoSteps
    /\ visited = << >>

InitValidate ==
    /\ vIn \in ValidatorInputs
    /\ vOut = VIdle
    /\ CodecIdle
    /\ SanitizerIdle
    /\ DriverIdle
    /\ ScriptsIdle
    /\ variant = "plain"
    /\ dir = << >>
    /\ table = << >>
    /\ pc = "validator"
    /\ maxId = NegInf
    /\ txtFiles = << >>
    /\ i = 0
    /\ results = << >>
    /\ response = NoResponse
    /\ store = << >>
    /\ payload = NoPayload
    /\ attempt = 0
    /\ ist = "idle"
    /\ calls = 0
    /\ hist = << >>
    /\ delays = << >>
    /\ modelResult = Undefined
    /\ ierr = NoErr
    /\ steps = NoSteps
    /\ visited = << >>

Called(r) == [done |-> TRUE, ok |-> r.ok, err |-> r.err]

Validate ==
    /\ pc = "validator"
    /\ ~vOut.done
    /\ vOut' = Called(validateDynamoDBStructure(vIn))
    /\ UNCHANGED << vIn, bvars, cvars, svars, pvars, tvars, evars, avars, dvars >>

NextValidate == Validate

SpecValidate == InitValidate /\ [][NextValidate]_vars


----------------------------------------------------------------------------
(* Properties of the batch handler *)

\* A file name's stem and whether it is a decimal integer.
Stem(f) == SubSeq(f, 1, Len(f) - 1)
NumericStem(f) == Len(f) = 2 /\ f[1].k = "num"

\* The positions of the report that carry the id of file f.
OutcomesFor(f) == { j \in 1 .. Len(results) : results[j].assignmentId = Stem(f) }

\* Whether the loop body has ended for the file at position k.
Processed(k) == k < i \/ (k = i /\ pc = "done")

\* C1: the loop visits every .txt document in order and is never left by an
\* exception (once entered, the handler ends with the status report, whose body is
\* the list of outcomes); a numeric-id document has no outcome before its pass of
\* the loop ends and exactly one from then on.
C1_OneOutcomePerDocument ==
    /\ pc \in {"load", "invoke", "save"} => visited = SubSeq(txtFiles, 1, Len(visited))
    /\ pc \in {"invoke", "save"} => Len(visited) = i
    /\ (pc = "done" /\ txtFiles # << >>) =>
          /\ visited = txtFiles
          /\ visited = FilterTxt(dir)
          /\ response = [statusCode |-> 200, body |-> results]
    /\ \A k \in 1 .. Len(txtFiles) :
          NumericStem(txtFiles[k]) =>
             Cardinality(OutcomesFor(txtFiles[k])) = IF Processed(k) THEN 1 ELSE 0

\* C1 witness: a finished run of two documents in which the first failed and the
\* second succeeded.
C1_Witness ==
    /\ pc = "done"
    /\ Len(txtFiles) = 2
    /\ Len(results) = 2
    /\ results[1].status = "FAILED"
    /\ results[2].status = "SUCCESS"
    /\ NumericStem(txtFiles[1]) /\ NumericStem(txtFiles[2])

\* Whether the pass of the loop that just ended was for an attempted document
\* (one that failed to load or was submitted to the endpoint).
Attempted == steps.done /\ (steps.load = "fail" \/ steps.invoke # "none")

AllStepsOk ==
    /\ steps.load = "ok"
    /\ steps.invoke = "ok"
    /\ steps.validate = (IF ValidationEnabled(variant) THEN "ok" ELSE "none")
    /\ steps.put = "ok"
    /\ steps.written

\* C2: the outcome recorded for an attempted document is SUCCESS exactly when
\* load, invoke, validate (where enabled) and the store write all succeeded and the
\* result was written; otherwise it is FAILED with the message of the error of the
\* step that failed.
C2_OutcomeMatchesSteps ==
    Attempted =>
        /\ results # << >>
        /\ results[Len(results)].status = "SUCCESS" <=> AllStepsOk
        /\ ~AllStepsOk =>
              /\ results[Len(results)].status = "FAILED"
              /\ results[Len(results)].error = steps.err.message

\* The divergence behind C2: the store took the item, and the log line of
\* saveAnalysisToDynamoDB then failed reading result.assignmentId.N.
C2_WrittenButFailed ==
    /\ Attempted
    /\ AllStepsOk
    /\ results[Len(results)].status = "FAILED"
    /\ store # << >> /\ store[Len(store)] = modelResult

\* C2 holds of every document but those.
C2_ExceptLogLine ==
    (Attempted /\ ~C2_WrittenButFailed) => C2_OutcomeMatchesSteps


----------------------------------------------------------------------------
(* Properties of the retrying invokeModelEndpoint *)

Min(a, b) == IF a <= b THEN a ELSE b

\* A call that ended in HTTP 502 or in a timeout.
TransientOutcome(o) == (o.kind = "httpError" /\ o.status = 502) \/ o.kind = "timeout"

\* The index of the first outcome of h that is not transient; past the end of h
\* when every one is.
AttemptsNeeded(h) ==
    IF \E k \in 1 .. Len(h) : ~TransientOutcome(h[k])
    THEN CHOOSE k \in 1 .. Len(h) :
            ~TransientOutcome(h[k]) /\ \A j \in 1 .. (k - 1) : TransientOutcome(h[j])
    ELSE Len(h) + 1

InvocationOver == ist \in {"returned", "thrown"}

InvocationFailedAfter(n) ==
    << Word("Lambda invocation failed after"), NumTok(n), Word("attempts:") >>

\* C3: every call has one outcome, no call follows the MAX_RETRIES-th (3), an
\* invocation that is over made min(attempts_needed, MAX_RETRIES) calls, and when
\* every attempt ended in HTTP 502 it made 3 and threw the invocation error.
C3_CallsAreMinNeededMax ==
    ist # "idle" =>
        /\ calls <= 3
        /\ calls = Len(hist) + (IF ist = "inflight" THEN 1 ELSE 0)
        /\ attempt = calls
        /\ InvocationOver => calls = Min(AttemptsNeeded(hist), 3)
        /\ ~InvocationOver => AttemptsNeeded(hist) > Len(hist) /\ Len(hist) < 3
        /\ (Len(hist) = 3 /\ \A k \in 1 .. 3 : hist[k] = HttpError(502)) =>
              /\ ist = "thrown"
              /\ SubSeq(ierr.message, 1, 3) = InvocationFailedAfter(3)

\* C3 witness: three calls, each ended in HTTP 502, and the invocation threw.
C3_Witness ==
    /\ hist = << HttpError(502), HttpError(502), HttpError(502) >>
    /\ ist = "thrown"
    /\ calls = 3

\* The JSON value a body text stands for (a body that is a JSON string holding
\* JSON text stands for what that text holds), and whether there is one.
BodyParses(text) ==
    /\ JSONparse(text).ok
    /\ JSONparse(text).val.t = "str" => JSONparse(JSONparse(text).val.v).ok
BodyValue(text) ==
    IF JSONparse(text).val.t = "str" THEN JSONparse(JSONparse(text).val.v).val
    ELSE JSONparse(text).val

\* The two recognized shapes.
CanonicalShape(x) ==
    /\ x.t = "map"
    /\ "analyticsId" \in DOMAIN x.v
    /\ x.v["analyticsId"].t = "map"
    /\ "N" \in DOMAIN x.v["analyticsId"].v
LegacyShape(x) ==
    /\ x.t = "list"
    /\ Len(x.v) > 0
    /\ x.v[1].t = "map"
    /\ "generated_text" \in DOMAIN x.v[1].v
    /\ x.v[1].v["generated_text"].t = "str"
    /\ x.v[1].v["generated_text"].v # << >>

Unrecognized(text) ==
    BodyParses(text) /\ ~CanonicalShape(BodyValue(text)) /\ ~LegacyShape(BodyValue(text))

\* A call that ended in a failure other than HTTP 502 or a timeout: another HTTP
\* error, no connection, a body that is not JSON, a body of neither shape with
\* which the attempt did not return a result.
OtherFailure(o) ==
    \/ o.kind = "httpError" /\ o.status # 502
    \/ o.kind = "network"
    \/ o.kind = "response" /\ ~BodyParses(o.text)
    \/ o.kind = "response" /\ Unrecognized(o.text) /\ ~AttemptBody(o).ok

\* C4: a failure other than HTTP 502 or a timeout on attempt k ends the invocation
\* with an error at attempt k: it has thrown, k calls were made, and no backoff
\* delay was started after the failure.
C4_OtherFailureNotRetried ==
    (hist # << >> /\ OtherFailure(hist[Len(hist)])) =>
        /\ ist = "thrown"
        /\ attempt = Len(hist)
        /\ calls = Len(hist)
        /\ Len(delays) = Len(hist) - 1

\* C4 witness: HTTP 404 on the second attempt, after one retry: two calls, one delay.
C4_Witness ==
    /\ ist = "thrown"
    /\ hist = << HttpError(502), HttpError(404) >>
    /\ calls = 2
    /\ Len(delays) = 1

\* C5: an invocation that failed on its last attempt (MAX_RETRIES, 3) throws an
\* error that names the attempt count and ends in the message of the error of that
\* last attempt.
C5_ExhaustedCarriesLastCause ==
    (ist = "thrown" /\ Len(hist) = 3) =>
        ierr.message = InvocationFailedAfter(3) \o AttemptBody(hist[3]).err.message

\* C5 witness: retries exhausted with a timeout first and HTTP 502 last.
C5_Witness ==
    /\ ist = "thrown"
    /\ hist = << TimedOut, HttpError(502), HttpError(502) >>

UnknownFormatHeader ==
    << Word("Unknown response format. Expected DynamoDB JSON or SageMaker array. Got:") >>

\* C6, as claimed: a received body of neither shape makes the invocation fail with
\* the unrecognized-response-format error, which carries the start of the body
\* (on the last attempt inside the invocation error), and no result is returned.
C6_UnrecognizedBodyRejected ==
    (hist # << >> /\ hist[Len(hist)].kind = "response" /\ Unrecognized(hist[Len(hist)].text)) =>
        /\ ist = "thrown"
        /\ modelResult = Undefined
        /\ \/ ierr.message = UnknownFormatHeader
                 \o Substring(JSONstringify(BodyValue(hist[Len(hist)].text)), 200)
           \/ ierr.message = InvocationFailedAfter(3) \o UnknownFormatHeader
                 \o Substring(JSONstringify(BodyValue(hist[Len(hist)].text)), 200)

\* The bodies on which the code leaves C6: null and a list whose first element is
\* null (a TypeError instead), and a list whose first element has a generated_text
\* that is not a string (parsed and returned).
C6_Divergent(x) ==
    \/ x.t = "null"
    \/ x.t = "list" /\ Len(x.v) > 0 /\ x.v[1].t = "null"
    \/ x.t = "list" /\ Len(x.v) > 0 /\ ~Falsy(Get(x.v[1], "generated_text"))

\* C6 holds of every other body.
C6_ExceptDivergent ==
    (hist # << >> /\ hist[Len(hist)].kind = "response" /\ Unrecognized(hist[Len(hist)].text)
       /\ ~C6_Divergent(BodyValue(hist[Len(hist)].text))) => C6_UnrecognizedBodyRejected

\* C7: an invocation whose last response was the legacy wrapping of a canonical
\* body X returned, and returned what an invocation answered with X itself returns.
C7_LegacySameAsCanonical ==
    \A x \in CanonicalBodies :
        (InvocationOver /\ hist[Len(hist)] = Response(JSONstringify(Legacy(x)))) =>
            /\ ist = "returned"
            /\ RetryStep(attempt, Response(JSONstringify(x))).kind = "return"
            /\ modelResult = RetryStep(attempt, Response(JSONstringify(x))).val

\* C7 witness: an invocation returned on the legacy wrapping of a canonical body,
\* after one retry.
C7_Witness ==
    /\ ist = "returned"
    /\ Len(hist) = 2
    /\ \E x \in CanonicalBodies : hist[2] = Response(JSONstringify(Legacy(x)))


----------------------------------------------------------------------------
(* Properties of validateDynamoDBStructure *)

\* The fixed order of the seven required fields.
FieldOrder == << "analyticsId", "assignmentId", "gradeReceived", "aiGeneratedAnalytics",
                 "plagarismAnalytics", "gradeReasoning", "remarks" >>

\* The field is absent from x or holds null, false, 0 or the empty string.
MissingOrFalsy(x, f) ==
    \/ x.t # "map"
    \/ f \notin DOMAIN x.v
    \/ x.v[f] \in { JNull, JBool(FALSE), JNum(0), JStr(<< >>) }

SomeFieldMissing(x) == \E k \in 1 .. 7 : MissingOrFalsy(x, FieldOrder[k])

FirstMissing(x) ==
    FieldOrder[CHOOSE k \in 1 .. 7 :
                  /\ MissingOrFalsy(x, FieldOrder[k])
                  /\ \A j \in 1 .. (k - 1) : ~MissingOrFalsy(x, FieldOrder[j])]

MissingFieldMessage(f) == << Word("Missing required field:"), Word(f) >>

\* C8: called on a result (a value that has properties: not null) with one or more
\* of the seven required fields missing or falsy, the validator fails with the
\* missing-field error that names the first such field in the fixed order and
\* nothing else; with none missing it returns ok.
C8_FirstMissingFieldNamed ==
    (vOut.done /\ vIn.t \notin {"null", "undefined"}) =>
        IF SomeFieldMissing(vIn)
        THEN /\ ~vOut.ok
             /\ vOut.err.name = "Error"
             /\ vOut.err.message = MissingFieldMessage(FirstMissing(vIn))
        ELSE vOut.ok /\ vOut.err = NoErr

\* C8 witness: the validator was called on a result with analyticsId present,
\* assignmentId falsy and remarks absent, and failed.
C8_Witness ==
    /\ vOut.done
    /\ ~vOut.ok
    /\ vIn.t = "map"
    /\ ~MissingOrFalsy(vIn, "analyticsId")
    /\ "assignmentId" \in DOMAIN vIn.v
    /\ MissingOrFalsy(vIn, "assignmentId")
    /\ "remarks" \notin DOMAIN vIn.v

----------------------------------------------------------------------------
(* Properties of the batch handler: validation and the store *)

\* The invocation for the current document returned a result in which the two
\* fields checked before gradeReceived are in order, in the validating variant.
ValidatedResult ==
    /\ variant = "plain"
    /\ steps.invoke = "ok"
    /\ ist = "returned"
    /\ modelResult.t = "map"
    /\ ~MissingOrFalsy(modelResult, "analyticsId")
    /\ ~MissingOrFalsy(modelResult, "assignmentId")

\* The document of the current result was rejected for its gradeReceived: the
\* outcome is FAILED with that message and nothing was put in the store for it.
RejectedForGrade ==
    /\ steps.validate = "fail"
    /\ steps.put = "none"
    /\ ~steps.written
    /\ pc # "save"
    /\ results # << >>
    /\ results[Len(results)].status = "FAILED"
    /\ results[Len(results)].error = MissingFieldMessage("gradeReceived")
    /\ \A k \in 1 .. Len(store) : store[k] # modelResult

\* A grade of zero: the number 0, or the numeric typed attribute { "N": "0" } in
\* which the result comes from the endpoint and goes to the store.
ZeroGrade(x) ==
    /\ "gradeReceived" \in DOMAIN x.v
    /\ x.v["gradeReceived"] \in { JNum(0), WireN(0) }

PutIssued == pc = "save" \/ steps.put # "none"

\* C10, as claimed: a put is issued only after the invocation returned and the
\* validator accepted the result, and no stored result misses a required field.
C10_WriteOnlyAfterAcceptance ==
    /\ PutIssued => ist = "returned" /\ steps.invoke = "ok" /\ steps.validate = "ok"
    /\ \A k \in 1 .. Len(store) : ~SomeFieldMissing(store[k])

\* C10, amended: a put is issued only after the invocation returned; in the
\* variant that validates, only after the validator accepted the result, and there
\* no stored result misses a required field. The variant whose validation call is
\* commented out puts whatever the invocation returned.
C10_WriteAfterInvokeAndEnabledValidation ==
    /\ PutIssued => ist = "returned" /\ steps.invoke = "ok" /\ steps.load = "ok"
    /\ variant = "plain" =>
          /\ PutIssued => steps.validate = "ok" /\ ~SomeFieldMissing(modelResult)
          /\ \A k \in 1 .. Len(store) : ~SomeFieldMissing(store[k])
    /\ variant = "retry" => steps.validate = "none"

\* C10 witness: the validating variant rejected the first document for a missing
\* field, stored the second, and ended.
C10_Witness ==
    /\ variant = "plain"
    /\ pc = "done"
    /\ Len(results) = 2
    /\ results[1].status = "FAILED"
    /\ results[1].error = MissingFieldMessage("remarks")
    /\ results[2].status = "SUCCESS"
    /\ Len(store) = 1

\* The retrying variant stored a result without remarks.
C10_IncompleteStored ==
    /\ variant = "retry"
    /\ \E k \in 1 .. Len(store) : MissingOrFalsy(store[k], "remarks")


----------------------------------------------------------------------------
(* Properties of the batch handler: skipped documents, the response, the order *)

\* Nothing was sent to the endpoint or to the store for a document whose id is not
\* numeric, and each numeric-id document whose pass ended has one outcome with its id.
NonNumericNeverSubmitted ==
    /\ ~IsNaNId(payload.assignmentId)
    /\ (steps.file # << >> /\ ~NumericStem(steps.file)) =>
          steps.invoke = "none" /\ steps.validate = "none" /\ steps.put = "none"
                                /\ ~steps.written
    /\ \A k \in 1 .. Len(txtFiles) :
          (NumericStem(txtFiles[k]) /\ Processed(k)) =>
              \E j \in 1 .. Len(results) :
                  OutcomesFor(txtFiles[k]) = {j} /\ results[j].assignmentId = Stem(txtFiles[k])

\* C11, as claimed: a document whose id is not numeric is never submitted, never
\* stored and has no outcome in the report, and the numeric-id documents of the
\* batch each have their one outcome.
C11_NonNumericSkipped ==
    /\ NonNumericNeverSubmitted
    /\ \A k \in 1 .. Len(txtFiles) :
          ~NumericStem(txtFiles[k]) => OutcomesFor(txtFiles[k]) = { }

\* C11, amended: a document whose id is not numeric is never submitted and never
\* stored; when its text was loaded it has no outcome in the report, and when the
\* load failed it has the one outcome FAILED with the load error, under its
\* non-numeric id. The numeric-id documents each have their one outcome.
C11_NonNumericSkippedOnceLoaded ==
    /\ NonNumericNeverSubmitted
    /\ \A k \in 1 .. Len(txtFiles) :
          ~NumericStem(txtFiles[k]) =>
              /\ \A j \in OutcomesFor(txtFiles[k]) :
                    /\ results[j].status = "FAILED"
                    /\ results[j].error = LoadError(txtFiles[k]).message
              /\ Cardinality(OutcomesFor(txtFiles[k])) <= 1
              /\ (steps.file = txtFiles[k] /\ steps.load = "ok") =>
                    OutcomesFor(txtFiles[k]) = { }
              /\ (steps.file = txtFiles[k] /\ steps.load = "fail") =>
                    OutcomesFor(txtFiles[k]) = { Len(results) }

\* C11 witness: a finished run over a numeric-id document and a loaded document
\* whose id is not numeric, with the one outcome of the first.
C11_Witness ==
    /\ pc = "done"
    /\ Len(txtFiles) = 2
    /\ NumericStem(txtFiles[1])
    /\ ~NumericStem(txtFiles[2])
    /\ steps.file = txtFiles[2]
    /\ steps.load = "ok"
    /\ Len(results) = 1
    /\ results[1].assignmentId = Stem(txtFiles[1])


\* The handler has ended: it returned a response or was left by an exception.
HandlerEnded == pc \in {"done", "crashed"}

\* The response the handler returned is the status report when documents were
\* found, and a top-level failure response (400, 500) when none could be processed.
ResponseReturned ==
    /\ response.statusCode \in {200, 400, 500}
    /\ txtFiles # << >> => response = [statusCode |-> 200, body |-> results]
    /\ txtFiles = << >> => response.statusCode \in {400, 500} /\ response.body = << >>

\* C12, as claimed: the handler always ends with a response value, never with an
\* uncaught exception: the status report when at least one document was found, a
\* top-level failure response when no document was found, the directory could not
\* be read or the initial scan of the result store failed.
C12_AlwaysAResponse ==
    HandlerEnded => pc = "done" /\ ResponseReturned

\* The divergence behind C12: the scan failed and the handler was left by that
\* exception, with no response.
C12_ScanCrash == pc = "crashed" /\ response = NoResponse /\ txtFiles = << >>

\* C12 holds of every run whose initial scan succeeded.
C12_ExceptScan == pc = "done" => ResponseReturned


\* A document is in progress: loaded, and its pass of the loop not ended.
InProgress == pc \in {"invoke", "save"}

\* The k-th visited document has been processed to completion: its outcome is
\* recorded, or (its id not numeric) it was skipped.
Completed(k) ==
    IF NumericStem(visited[k]) THEN Cardinality(OutcomesFor(visited[k])) = 1
    ELSE Cardinality(OutcomesFor(visited[k])) <= 1

\* C13: documents are processed one at a time, in order. The loads follow the order
\* of the list; every document loaded before the latest one was processed to
\* completion; a call, a backoff delay or a put belongs to the latest loaded
\* document, which has no outcome yet; outcomes are recorded in document order.
C13_OneDocumentAtATime ==
    /\ Len(visited) <= Len(txtFiles)
    /\ visited = SubSeq(txtFiles, 1, Len(visited))
    /\ \A k \in 1 .. (Len(visited) - 1) : Completed(k)
    /\ (~InProgress /\ visited # << >>) => Completed(Len(visited))
    /\ InProgress =>
          /\ visited # << >>
          /\ steps.file = visited[Len(visited)]
          /\ ~steps.done
          /\ OutcomesFor(visited[Len(visited)]) = { }
          /\ payload.assignmentId = Stem(visited[Len(visited)])
          /\ calls = Len(hist) + (IF ist = "inflight" THEN 1 ELSE 0)
          /\ Len(delays) <= Len(hist)
    /\ (ist \in {"inflight", "backoff"} \/ pc = "save") => InProgress
    /\ \A j \in 1 .. Len(results) :
          \E k \in 1 .. Len(visited) :
              /\ results[j].assignmentId = Stem(visited[k])
              /\ \A j2 \in 1 .. (j - 1) :
                    \E k2 \in 1 .. (k - 1) : results[j2].assignmentId = Stem(visited[k2])

\* C13 witness: the second document waits in a backoff delay after its first call,
\* and the first document has its outcome.
C13_Witness ==
    /\ pc = "invoke"
    /\ ist = "backoff"
    /\ Len(visited) = 2
    /\ Len(results) = 1
    /\ results[1].assignmentId = Stem(visited[1])
    /\ Len(delays) = 1


----------------------------------------------------------------------------
(* The codec on its own: toDynamoDBFormat and the two convert functions *)

PlainLeaves ==
    { JStr(<< Word("a") >>), JStr(<< >>), JNum(0), JNum(5), JNum(-3), JBool(TRUE), JBool(FALSE) }

\* Values one level below the top: leaves, lists and objects of leaves, the empty
\* list and object, a list in a list, an object in a list, a list in an object,
\* and objects with the keys S, N, BOOL, M, L.
PlainInner ==
    PlainLeaves
    \cup { JList(<< >>), JMap(EmptyMap), JList(<< JNum(1), JStr(<< Word("a") >>) >>) }
    \cup { JList(<< x >>) : x \in PlainLeaves }
    \cup { JMap([a |-> x]) : x \in PlainLeaves }
    \cup { JList(<< JList(<< JNum(1) >>) >>), JList(<< JList(<< >>) >>),
           JList(<< JMap([a |-> JNum(1)]) >>), JList(<< JMap(EmptyMap) >>),
           JMap([a |-> JList(<< JNum(1) >>)]), JMap([a |-> JMap([b |-> JBool(TRUE)])]),
           JMap([S |-> JStr(<< Word("a") >>)]), JMap([N |-> JNum(5)]),
           JMap([BOOL |-> JBool(FALSE)]), JMap([M |-> JMap(EmptyMap)]),
           JMap([L |-> JList(<< JNum(1) >>)]) }

\* The plain values handed to toDynamoDBFormat: objects.
PlainValues ==
    { JMap(EmptyMap) }
    \cup { JMap([a |-> x]) : x \in PlainInner }
    \cup { JMap([a |-> x, b |-> y]) : x \in PlainLeaves, y \in PlainLeaves }
    \cup { JMap([S |-> x]) : x \in PlainLeaves }
    \cup { JMap([N |-> x]) : x \in PlainLeaves }
    \cup { JMap([M |-> JMap([a |-> JNum(1)])]), JMap([L |-> JList(<< JNum(1) >>)]),
           JMap([BOOL |-> JBool(TRUE)]), JMap([a |-> JNum(1), S |-> JStr(<< Word("a") >>)]) }

\* Attribute values as they come from the table: typed, and without a discriminator.
TypedValues ==
    { WireS("a"), JMap([S |-> JStr(<< >>)]), WireN(5), WireN(0), JMap([BOOL |-> JBool(TRUE)]),
      JMap([BOOL |-> JBool(FALSE)]), JMap([M |-> JMap(EmptyMap)]),
      JMap([M |-> JMap([x |-> WireS("a")])]), JMap([M |-> JMap([x |-> JMap([M |-> JMap([y |-> WireN(1)])])])]),
      JMap([L |-> JList(<< >>)]), JMap([L |-> JList(<< WireS("a"), WireN(5) >>)]),
      JMap([L |-> JList(<< JMap([M |-> JMap([x |-> WireN(1)])]) >>)]),
      JMap([L |-> JList(<< JMap([L |-> JList(<< WireN(1) >>)]) >>)]) }
RawValues ==
    { JStr(<< Word("a") >>), JStr(<< >>), JNum(5), JNum(0), JBool(TRUE), JBool(FALSE), JNull }
UntypedInside ==
    { JMap([M |-> JMap([x |-> JStr(<< Word("a") >>)])]), JMap([M |-> JMap([x |-> JNull])]),
      JMap([M |-> JMap([x |-> JNum(5)])]),
      JMap([L |-> JList(<< JStr(<< Word("a") >>) >>)]), JMap([L |-> JList(<< JNull >>)]),
      JMap([L |-> JList(<< JNum(5) >>)]) }
AttrValues == TypedValues \cup RawValues \cup UntypedInside

\* The wire values handed to convert: items, maps from attribute names to values.
WireValues ==
    { JMap(EmptyMap) }
    \cup { JMap([x |-> u]) : u \in AttrValues }
    \cup { JMap([x |-> u, y |-> w]) : u \in TypedValues, w \in RawValues }

\* Either a plain value to encode and decode, or a wire value to decode.
InitCodec ==
    /\ \/ plain \in PlainValues /\ wire = NotYet /\ HandlerIdle("encode")
       \/ plain = NotYet /\ wire \in WireValues /\ HandlerIdle("decode")
    /\ decoded = NotYet
    /\ decodedRow = NotYet
    /\ vIn = Undefined
    /\ vOut = VIdle
    /\ SanitizerIdle
    /\ DriverIdle
    /\ ScriptsIdle

\* const dynamoDBItem = toDynamoDBFormat(summary)
Encode ==
    /\ pc = "encode"
    /\ wire' = toDynamoDBFormat(plain)
    /\ pc' = "decode"
    /\ UNCHANGED << variant, dir, table, maxId, txtFiles, i, results, response, store, payload,
                    attempt, ist, calls, hist, delays, modelResult, ierr, steps, visited,
                    vIn, vOut, plain, decoded, decodedRow, svars, dvars, pvars, tvars, evars, avars >>

\* raw.Items.map(item => convert(item)) of part_002
Decode ==
    /\ pc = "decode"
    /\ decoded = NotYet
    /\ decoded' = convertWrapper(wire)
    /\ UNCHANGED << bvars, vIn, vOut, plain, wire, decodedRow, svars, dvars, pvars, tvars, evars, avars >>

\* raw.Items.map(item => convert(item)) of part_001
DecodeRow ==
    /\ pc = "decode"
    /\ decodedRow = NotYet
    /\ decodedRow' = convert(wire)
    /\ UNCHANGED << bvars, vIn, vOut, plain, wire, decoded, svars, dvars, pvars, tvars, evars, avars >>

NextCodec == Encode \/ Decode \/ DecodeRow

SpecCodec == InitCodec /\ [][NextCodec]_vars

----------------------------------------------------------------------------
(* Properties of the codec *)

\* C14, as claimed: convert(toDynamoDBFormat(v)) = v for every plain value v.
C14_RoundTrip ==
    (plain # NotYet /\ decoded # NotYet) => decoded = plain

RECURSIVE ListInList(_), HasTypeKey(_)
\* v holds a list that is an element of a list.
ListInList(v) ==
    CASE v.t = "list" -> \E k \in 1 .. Len(v.v) : v.v[k].t = "list" \/ ListInList(v.v[k])
      [] v.t = "map"  -> \E k \in DOMAIN v.v : ListInList(v.v[k])
      [] OTHER -> FALSE

\* v holds an object with a key named S, N, BOOL, M or L.
HasTypeKey(v) ==
    CASE v.t = "list" -> \E k \in 1 .. Len(v.v) : HasTypeKey(v.v[k])
      [] v.t = "map"  -> DOMAIN v.v \cap {"S", "N", "BOOL", "M", "L"} # { }
                         \/ \E k \in DOMAIN v.v : HasTypeKey(v.v[k])
      [] OTHER -> FALSE

\* The round trip holds of every object with no list inside a list and no key
\* named as a type discriminator.
C14_ExceptNestedListsAndTypeKeys ==
    (plain # NotYet /\ decoded # NotYet /\ ~ListInList(plain) /\ ~HasTypeKey(plain)) =>
        decoded = plain

\* The divergence behind C14: a list inside a list comes back as an object.
C14_ListComesBackAsObject ==
    /\ plain = JMap([a |-> JList(<< JList(<< JNum(1) >>) >>)])
    /\ decoded = JMap([a |-> JList(<< JMap([k \in {"0"} |-> JNum(1)]) >>)])

RECURSIVE PlainOfValue(_), PlainOfItem(_)
\* The plain value of an attribute value: what its discriminator wraps, each element
\* of an L list and each entry of an M map converted, a value without a
\* discriminator unchanged.
PlainOfValue(val) ==
    IF val.t # "map" THEN val
    ELSE IF "S" \in DOMAIN val.v THEN val.v["S"]
    ELSE IF "N" \in DOMAIN val.v THEN JNum(val.v["N"].v[1].n)
    ELSE IF "BOOL" \in DOMAIN val.v THEN val.v["BOOL"]
    ELSE IF "M" \in DOMAIN val.v THEN PlainOfItem(val.v["M"])
    ELSE IF "L" \in DOMAIN val.v
         THEN JList([k \in 1 .. Len(val.v["L"].v) |-> PlainOfValue(val.v["L"].v[k])])
    ELSE val
PlainOfItem(item) == JMap([k \in DOMAIN item.v |-> PlainOfValue(item.v[k])])

\* C15, as claimed: on every wire value, both convert functions return, without an
\* error, the plain value: unrecognized values unchanged, every element of an L
\* list and every entry of an M map converted.
C15_DecodeTotal ==
    wire # NotYet =>
        /\ decoded # NotYet => ~IsThrow(decoded) /\ decoded = PlainOfItem(wire)
        /\ decodedRow # NotYet => ~IsThrow(decodedRow) /\ decodedRow = PlainOfItem(wire)

RECURSIVE FullyTyped(_), TypedAttr(_)
\* Every attribute value of the item, at every depth, carries a discriminator, and
\* no attribute is named as one.
TypedAttr(val) ==
    /\ val.t = "map"
    /\ DOMAIN val.v \cap {"S", "N", "BOOL", "M", "L"} # { }
    /\ "M" \in DOMAIN val.v => FullyTyped(val.v["M"])
    /\ "L" \in DOMAIN val.v => \A k \in 1 .. Len(val.v["L"].v) : TypedAttr(val.v["L"].v[k])
FullyTyped(item) ==
    /\ item.t = "map"
    /\ DOMAIN item.v \cap {"S", "N", "BOOL", "M", "L"} = { }
    /\ \A k \in DOMAIN item.v : TypedAttr(item.v[k])

RECURSIVE HasNonEmptyList(_)
\* The item holds an L list with an element.
HasNonEmptyList(item) ==
    \E k \in DOMAIN item.v :
        /\ item.v[k].t = "map"
        /\ \/ "L" \in DOMAIN item.v[k].v /\ item.v[k].v["L"].v # << >>
           \/ "M" \in DOMAIN item.v[k].v /\ HasNonEmptyList(item.v[k].v["M"])

\* Where C15 holds: convert of part_002 on items whose values all carry a
\* discriminator, convert of part_001 on such items without list elements.
C15_OnTypedItems ==
    (wire # NotYet /\ FullyTyped(wire)) =>
        /\ decoded # NotYet => decoded = PlainOfItem(wire)
        /\ (decodedRow # NotYet /\ ~HasNonEmptyList(wire)) => decodedRow = PlainOfItem(wire)

\* The divergences behind C15: a raw string attribute overflows the stack in convert
\* of part_002; a null attribute is a TypeError in convert of part_001.
C15_RawStringOverflows ==
    wire = JMap([x |-> JStr(<< Word("a") >>)]) /\ decoded = JThrow("RangeError")
C15_NullAttributeThrows ==
    wire = JMap([x |-> JNull]) /\ decodedRow = JThrow("TypeError")


----------------------------------------------------------------------------
(* The text sanitizer: sanitizeText, normalizeForOneLine and the sentinel markers *)
(* A text is a sequence of characters, each one named by its class. *)

\* \u0000, \f, \r, \n, \t, the space, the no-break space (white space outside
\* ASCII), a control character (\u0007), a printable character.
Chars == { "NUL", "FF", "CR", "LF", "TAB", "SP", "NBSP", "BEL", "a" }

\* The two markers, each a run of printable ASCII characters without white space.
RAW_TEXT_START == "<<RAW_TEXT_START>>"
RAW_TEXT_END == "<<RAW_TEXT_END>>"

MaxText == 4

Texts == UNION { [1 .. n -> Chars] : n \in 0 .. MaxText }

RECURSIVE ReplaceEach(_, _, _)
\* text.replace(/c/g, to) for a single character c; to is a text
ReplaceEach(text, c, to) ==
    IF text = << >> THEN << >>
    ELSE (IF Head(text) = c THEN to ELSE << Head(text) >>) \o ReplaceEach(Tail(text), c, to)

RECURSIVE ReplaceCRLF(_)
\* text.replace(/\r\n/g, ' ')
ReplaceCRLF(text) ==
    IF Len(text) < 2 THEN text
    ELSE IF text[1] = "CR" /\ text[2] = "LF" THEN << "SP" >> \o ReplaceCRLF(Tail(Tail(text)))
    ELSE << Head(text) >> \o ReplaceCRLF(Tail(text))

\* [\x09\x0A\x0D\x20-\x7E\xa0-\uFFFF]
Kept(c) == c \notin { "NUL", "FF", "BEL" }

RECURSIVE RemoveWeird(_)
\* text.replace(/[^\x09\x0A\x0D\x20-\x7E\xa0-\uFFFF]/g, '')
RemoveWeird(text) ==
    IF text = << >> THEN << >>
    ELSE (IF Kept(Head(text)) THEN << Head(text) >> ELSE << >>) \o RemoveWeird(Tail(text))

\* \s
IsSpace(c) == c \in { "TAB", "LF", "FF", "CR", "SP", "NBSP" }

\* The text without its first character when that one is white space.
SkipOneSpace(text) == IF text = << >> \/ ~IsSpace(Head(text)) THEN text ELSE Tail(text)

RECURSIVE SkipSpaces(_)
\* The text from its first character that is not white space on.
SkipSpaces(text) ==
    IF text = << >> \/ ~IsSpace(Head(text)) THEN text ELSE SkipSpaces(Tail(text))

RECURSIVE CollapseSpaces(_)
\* text.replace(/\s\s+/g, ' ')
CollapseSpaces(text) ==
    IF Len(text) < 2 THEN text
    ELSE IF IsSpace(text[1]) /\ IsSpace(text[2])
         THEN << "SP" >> \o CollapseSpaces(SkipSpaces(text))
    ELSE << Head(text) >> \o CollapseSpaces(Tail(text))

RECURSIVE TrimEnd(_)
TrimEnd(text) ==
    IF text = << >> \/ ~IsSpace(text[Len(text)]) THEN text
    ELSE TrimEnd(SubSeq(text, 1, Len(text) - 1))

\* trim() with nothing removed.
TrimNothing(text) == text

\* text.trim()
Trim(text) == TrimEnd(SkipSpaces(text))

\* sanitizeText(text)
sanitizeText(text) ==
    RemoveWeird(ReplaceEach(ReplaceEach(ReplaceEach(text, "NUL", << >>),
                                        "FF", << "LF" >>), "CR", << "LF" >>))

\* normalizeForOneLine(text)
normalizeForOneLine(text) ==
    Trim(CollapseSpaces(
        ReplaceEach(ReplaceEach(ReplaceEach(ReplaceCRLF(
            ReplaceEach(ReplaceEach(text, "NUL", << >>), "FF", << "SP" >>)),
            "CR", << "SP" >>), "LF", << "SP" >>), "TAB", << "SP" >>)))

\* invokeModelEndpoint, lines 65-67: cleaned, oneLineText, safeText
SafeText(text) ==
    << RAW_TEXT_START >> \o normalizeForOneLine(sanitizeText(text)) \o << RAW_TEXT_END >>

InitSanitize ==
    /\ assignmentText \in Texts
    /\ safeText = << >>
    /\ safeAgain = << >>
    /\ HandlerIdle("sanitize")
    /\ vIn = Undefined
    /\ vOut = VIdle
    /\ CodecIdle
    /\ DriverIdle
    /\ ScriptsIdle

\* The payload text is built from the text of the document.
Sanitize ==
    /\ pc = "sanitize"
    /\ safeText = << >>
    /\ safeText' = SafeText(assignmentText)
    /\ UNCHANGED << bvars, vIn, vOut, cvars, assignmentText, safeAgain, dvars, pvars, tvars, evars, avars >>

\* The same steps on the text they produced.
SanitizeAgain ==
    /\ pc = "sanitize"
    /\ safeText # << >>
    /\ safeAgain = << >>
    /\ safeAgain' = SafeText(safeText)
    /\ UNCHANGED << bvars, vIn, vOut, cvars, assignmentText, safeText, dvars, pvars, tvars, evars, avars >>

NextSanitize == Sanitize \/ SanitizeAgain

SpecSanitize == InitSanitize /\ [][NextSanitize]_vars

----------------------------------------------------------------------------
(* Properties of the sanitizer *)

\* C16, as claimed: the steps that yield safeText, applied to safeText, yield
\* safeText again.
C16_Idempotent ==
    safeAgain # << >> => safeAgain = safeText

\* The divergence behind C16: the second application wraps the markers in markers.
C16_MarkersTwice ==
    /\ safeAgain # << >>
    /\ safeAgain = << RAW_TEXT_START >> \o safeText \o << RAW_TEXT_END >>
    /\ safeAgain # safeText

\* C16, amended: sanitizeText followed by normalizeForOneLine is idempotent, and
\* the steps that yield safeText, applied to safeText, change nothing but the
\* markers, which they add once more.
C16_IdempotentInsideMarkers ==
    /\ normalizeForOneLine(sanitizeText(normalizeForOneLine(sanitizeText(assignmentText))))
          = normalizeForOneLine(sanitizeText(assignmentText))
    /\ safeAgain # << >> => safeAgain = << RAW_TEXT_START >> \o safeText \o << RAW_TEXT_END >>

\* The steps were applied to a text and then to their own result.
C16_Witness ==
    /\ assignmentText = << "TAB", "a", "LF", "LF" >>
    /\ safeText = << RAW_TEXT_START, "a", RAW_TEXT_END >>
    /\ safeAgain = << RAW_TEXT_START, RAW_TEXT_START, "a", RAW_TEXT_END, RAW_TEXT_END >>

\* White space, as the claim counts it.
WhiteSpace == { "TAB", "LF", "FF", "CR", "SP", "NBSP" }

\* The text between the markers.
Inside(text) == SubSeq(text, 2, Len(text) - 1)

\* C17: the text placed in the payload is the start marker, a text and the end
\* marker; it holds no null byte, no carriage return and no newline; no two
\* white-space characters follow each other; the text between the markers neither
\* starts nor ends with white space.
C17_SafeTextClean ==
    safeText # << >> =>
        /\ Len(safeText) >= 2
        /\ safeText[1] = RAW_TEXT_START
        /\ safeText[Len(safeText)] = RAW_TEXT_END
        /\ \A k \in 1 .. Len(safeText) : safeText[k] \notin { "NUL", "CR", "LF" }
        /\ \A k \in 1 .. (Len(safeText) - 1) :
              ~(safeText[k] \in WhiteSpace /\ safeText[k + 1] \in WhiteSpace)
        /\ Inside(safeText) # << >> =>
              /\ Inside(safeText)[1] \notin WhiteSpace
              /\ Inside(safeText)[Len(Inside(safeText))] \notin WhiteSpace

\* C17 witness: a text with a space and a null byte in front of a character, then
\* a carriage return, came out as that character between the markers.
C17_Witness ==
    /\ assignmentText = << "SP", "NUL", "a", "CR" >>
    /\ safeText = << RAW_TEXT_START, "a", RAW_TEXT_END >>

\* A text with a carriage return and a newline between two characters came out as
\* the two characters, one space apart.
C17_LineBreakBecomesSpace ==
    /\ assignmentText = << "a", "CR", "LF", "a" >>
    /\ safeText = << RAW_TEXT_START, "a", "SP", "a", RAW_TEXT_END >>


----------------------------------------------------------------------------
(* The pipeline driver (part_003): part1, part2, part3 and, when enabled, part4 *)

\* The scripts, in the order of the driver.
Scripts == << "part1_S3PdfToText.js", "part2_Sagemaker.js", "part3_DynamoDb.js",
              "part4_Terminate.js" >>

\* What the environment holds for TERMINATE_ON_COMPLETE, and for INSTANCE_ID.
EnvValues == { "unset", "", "true", "1", "false" }
IdValues == { Undefined, JStr(<< >>), JStr(<< Word("i-0abc") >>) }

\* What the metadata service answers: the fetch rejects, or returns a text.
MetadataAnswers == { [ok |-> FALSE, text |-> << >>],
                     [ok |-> TRUE, text |-> << >>],
                     [ok |-> TRUE, text |-> << Word("i-0abc") >>] }

\* What DescribeInstances answers: the call rejects, no instance, or a state name.
DescribeAnswers == { "rejected", "none", "running", "shutting-down", "terminating", "terminated" }

\* The exit code of a node process whose top-level call returned a promise that
\* nobody awaits: 0 when it settles, 1 when it rejects (an unhandled rejection
\* ends the process, in the node installed by nvm install --lts).
NodeExit(rejected) == IF rejected THEN 1 ELSE 0

\* handler(); at the end of part2: the value it returns is dropped.
HandlerExit == NodeExit(pc = "crashed")

\* run_node_script returns 0 whatever the script did.
run_node_script_blind(code) == 0

\* if ! $NODE_CMD "$SCRIPTS_DIR/$script_file" ; then return 1 ... return 0
run_node_script(code) == IF code # 0 THEN 1 ELSE 0

Ran(script, code, status) == [script |-> script, code |-> code, status |-> status]

\* if ! run_node_script "partN"; then exit 1; fi
AfterScript(k, code, status, next) ==
    /\ exits' = Append(exits, Ran(Scripts[k], code, status))
    /\ IF run_node_script(code) # 0
       THEN /\ stage' = "exited"
            /\ exitCode' = 1
       ELSE /\ stage' = next
            /\ UNCHANGED exitCode

\* "${TERMINATE_ON_COMPLETE:-true}"
FlagDefault(env) == IF env \in {"unset", ""} THEN "true" ELSE env

\* The test of the flag passes whatever its value.
FlagOnAlways(v) == TRUE

\* [ "$TERMINATE_ON_COMPLETE" = "true" ] || [ "$TERMINATE_ON_COMPLETE" = "1" ]
FlagOn(v) == v = "true" \/ v = "1"

\* CONFIG.autoTerminateEC2 of part4
autoTerminateEC2 == TRUE

\* a || b
OrJS(a, b) == IF Falsy(a) THEN b ELSE a

\* getInstanceId: the text of the answer, undefined when a fetch rejected.
getInstanceId(answer) == IF answer.ok THEN JStr(answer.text) ELSE Undefined

\* run_node_script "part4_Terminate.js" || echo "[WARN] ...", then exit 0
Part4Ends(code) ==
    /\ exits' = Append(exits, Ran(Scripts[4], code, 0))
    /\ stage' = "exited"
    /\ exitCode' = 0

InitDriver ==
    /\ variant \in {"retry", "plain"}
    /\ dir \in Listings
    /\ table \in Tables
    /\ pc = "scan"
    /\ maxId = NegInf
    /\ txtFiles = << >>
    /\ i = 0
    /\ results = << >>
    /\ response = NoResponse
    /\ store = << >>
    /\ payload = NoPayload
    /\ attempt = 0
    /\ ist = "idle"
    /\ calls = 0
    /\ hist = << >>
    /\ delays = << >>
    /\ modelResult = Undefined
    /\ ierr = NoErr
    /\ steps = NoSteps
    /\ visited = << >>
    /\ vIn = Undefined
    /\ vOut = VIdle
    /\ CodecIdle
    /\ SanitizerIdle
    /\ stage = "part1"
    /\ exits = << >>
    /\ TERMINATE_ON_COMPLETE = "unread"
    /\ instanceId = Undefined
    /\ terminateSent = FALSE
    /\ exitCode = NoExit
    /\ described = "unasked"
    /\ sent = << >>
    /\ ScriptsIdle

\* part1: run() ends with process.exit(0) when main() returned, process.exit(1)
\* when it threw.
RunPart1(ok) ==
    /\ stage = "part1"
    /\ AfterScript(1, IF ok THEN 0 ELSE 1, 0, "part2")
    /\ UNCHANGED << bvars, vIn, vOut, cvars, svars, pvars, tvars, evars, avars, TERMINATE_ON_COMPLETE, instanceId,
                    terminateSent, described, sent >>

\* part2: one step of the handler.
RunPart2 ==
    /\ stage = "part2"
    /\ Next

\* part2: the handler has ended and the node process exits. What the process
\* held is gone with it; the directory, the table and what was written to the
\* store stay.
Part2Exits ==
    /\ stage = "part2"
    /\ pc \in {"done", "crashed"}
    /\ AfterScript(2, HandlerExit, response.statusCode, "part3")
    /\ pc' = "exited"
    /\ maxId' = NegInf
    /\ txtFiles' = << >>
    /\ i' = 0
    /\ results' = << >>
    /\ response' = NoResponse
    /\ payload' = NoPayload
    /\ attempt' = 0
    /\ ist' = "idle"
    /\ calls' = 0
    /\ hist' = << >>
    /\ delays' = << >>
    /\ modelResult' = Undefined
    /\ ierr' = NoErr
    /\ steps' = NoSteps
    /\ visited' = << >>
    /\ UNCHANGED << variant, dir, table, store, vIn, vOut, cvars, svars, pvars, tvars, evars, avars,
                    TERMINATE_ON_COMPLETE, instanceId, terminateSent, described, sent >>

\* part3: the node process exits with 0 or with another code.
RunPart3(ok) ==
    /\ stage = "part3"
    /\ AfterScript(3, IF ok THEN 0 ELSE 1, 0, "flag")
    /\ UNCHANGED << bvars, vIn, vOut, cvars, svars, pvars, tvars, evars, avars, TERMINATE_ON_COMPLETE, instanceId,
                    terminateSent, described, sent >>

\* The flag is read; part4 is started, or skipped and the driver exits with 0.
ReadFlag(env) ==
    /\ stage = "flag"
    /\ TERMINATE_ON_COMPLETE' = FlagDefault(env)
    /\ IF FlagOn(TERMINATE_ON_COMPLETE')
       THEN /\ stage' = "part4"
            /\ UNCHANGED exitCode
       ELSE /\ stage' = "exited"
            /\ exitCode' = 0
    /\ UNCHANGED << bvars, vIn, vOut, cvars, svars, pvars, tvars, evars, avars, exits, instanceId, terminateSent,
                    described, sent >>

\* part4: main() up to the first await of terminateEC2Instance: the metadata
\* service when INSTANCE_ID gave no id, DescribeInstances otherwise.
Part4Start(envId) ==
    /\ stage = "part4"
    /\ IF ~autoTerminateEC2
       THEN /\ Part4Ends(NodeExit(FALSE))
            /\ UNCHANGED instanceId
       ELSE /\ instanceId' = OrJS(envId, JNull)
            /\ stage' = IF Falsy(instanceId') THEN "getInstanceId" ELSE "describe"
            /\ UNCHANGED << exits, exitCode >>
    /\ sent' = IF autoTerminateEC2 /\ ~Falsy(instanceId') THEN Append(sent, "describe") ELSE sent
    /\ UNCHANGED << bvars, vIn, vOut, cvars, svars, pvars, tvars, evars, avars, TERMINATE_ON_COMPLETE, terminateSent,
                    described >>

\* part4: the metadata service answered; without an id, termination is skipped.
GetInstanceId(answer) ==
    /\ stage = "getInstanceId"
    /\ instanceId' = getInstanceId(answer)
    /\ IF Falsy(instanceId')
       THEN Part4Ends(NodeExit(FALSE))
       ELSE /\ stage' = "describe"
            /\ UNCHANGED << exits, exitCode >>
    /\ sent' = IF Falsy(instanceId') THEN sent ELSE Append(sent, "describe")
    /\ UNCHANGED << bvars, vIn, vOut, cvars, svars, pvars, tvars, evars, avars, TERMINATE_ON_COMPLETE, terminateSent,
                    described >>

\* The test for a state that needs no command fails whatever the state.
AlreadyGoneNever(state) == FALSE

\* currentState === 'terminated' || currentState === 'terminating'
AlreadyGone(state) == state = "terminated" \/ state = "terminating"

\* part4: DescribeInstances answered; the terminate command is sent unless the
\* instance is missing, terminated or terminating.
Describe(answer) ==
    /\ stage = "describe"
    /\ described' = answer
    /\ IF answer = "rejected"
       THEN /\ Part4Ends(NodeExit(TRUE))
            /\ UNCHANGED << terminateSent, sent >>
       ELSE IF answer = "none" \/ AlreadyGone(answer)
       THEN /\ Part4Ends(NodeExit(FALSE))
            /\ UNCHANGED << terminateSent, sent >>
       ELSE /\ terminateSent' = TRUE
            /\ sent' = Append(sent, "terminate")
            /\ stage' = "terminate"
            /\ UNCHANGED << exits, exitCode >>
    /\ UNCHANGED << bvars, vIn, vOut, cvars, svars, pvars, tvars, evars, avars, TERMINATE_ON_COMPLETE, instanceId >>

\* part4: the terminate command answered.
Terminate(ok) ==
    /\ stage = "terminate"
    /\ Part4Ends(NodeExit(~ok))
    /\ UNCHANGED << bvars, vIn, vOut, cvars, svars, pvars, tvars, evars, avars, TERMINATE_ON_COMPLETE, instanceId,
                    terminateSent, described, sent >>

NextDriver ==
    \/ \E ok \in BOOLEAN : RunPart1(ok)
    \/ RunPart2
    \/ Part2Exits
    \/ \E ok \in BOOLEAN : RunPart3(ok)
    \/ \E env \in EnvValues : ReadFlag(env)
    \/ \E envId \in IdValues : Part4Start(envId)
    \/ \E answer \in MetadataAnswers : GetInstanceId(answer)
    \/ \E answer \in DescribeAnswers : Describe(answer)
    \/ \E ok \in BOOLEAN : Terminate(ok)

SpecDriver == InitDriver /\ [][NextDriver]_vars


----------------------------------------------------------------------------
(* Claims about the pipeline driver *)

\* part2 has exited and its handler had not reached the loop over the documents:
\* the scan was rejected (no response), or the directory could not be listed
\* (the response with status 500).
Part2ScanFailed == Len(exits) >= 2 /\ exits[2].code # 0 /\ exits[2].status = 0
Part2ListingFailed == Len(exits) >= 2 /\ exits[2].status = 500

\* The driver stopped at part2 and exited with 1.
AbortedAtPart2 == stage = "exited" /\ exitCode = 1 /\ Len(exits) = 2

\* C18, as claimed: when part2 fails outside any batch item (the scan of the
\* store is rejected, or the document directory cannot be listed), the driver
\* treats part2 as failed: part3 and part4 are not run and it exits with 1.
C18_UncontainedFailureAborts ==
    (Part2ScanFailed \/ Part2ListingFailed) => AbortedAtPart2

\* The divergence behind C18: the directory could not be listed, part2 exited
\* with 0, part3 and part4 ran, a terminate command was sent and the driver
\* exited with 0.
C18_ListingFailureRunsOn ==
    /\ Part2ListingFailed
    /\ exits[2].code = 0
    /\ Len(exits) = 4
    /\ terminateSent
    /\ stage = "exited"
    /\ exitCode = 0

\* C18 holds of the failure the handler does not catch, the rejected scan.
C18_ScanFailureAborts == Part2ScanFailed => AbortedAtPart2

C18_ScanFailureAborted == Part2ScanFailed /\ AbortedAtPart2


\* The number of the script the driver is running, 0 between scripts and after.
Running ==
    CASE stage = "part1" -> 1
      [] stage = "part2" -> 2
      [] stage = "part3" -> 3
      [] stage \in {"part4", "getInstanceId", "describe", "terminate"} -> 4
      [] OTHER -> 0

\* The scripts were run in the order part1, part2, part3, part4, each one started
\* only after the one before it had exited with 0.
RunInOrder ==
    /\ Len(exits) <= 4
    /\ \A k \in 1..Len(exits) : exits[k].script = Scripts[k]
    /\ \A k \in 2..Len(exits) : exits[k - 1].code = 0
    /\ Running # 0 => Len(exits) = Running - 1 /\ \A k \in 1..Len(exits) : exits[k].code = 0

SomeFailed(upto) == \E k \in 1..Len(exits) : k <= upto /\ exits[k].code # 0

\* C19, as claimed: the driver runs part1, part2, part3, part4 in this order,
\* each only after the previous one exited successfully, and it exits with 0 only
\* when every script it ran succeeded and with 1 whenever one of them failed,
\* part4 included.
C19_ExitOneOnAnyFailure ==
    /\ RunInOrder
    /\ stage = "exited" => exitCode = (IF SomeFailed(4) THEN 1 ELSE 0)

\* C19, amended: the same order and the same condition for starting a script;
\* the driver exits with 1 exactly when part1, part2 or part3 failed, and with 0
\* otherwise: a failure of part4 is only logged as a warning.
C19_ExitOneOnFailureBeforePart4 ==
    /\ RunInOrder
    /\ stage = "exited" => exitCode = (IF SomeFailed(3) THEN 1 ELSE 0)
    /\ stage # "exited" => exitCode = NoExit

\* All four scripts ran with exit code 0 and the driver exited with 0.
C19_Witness ==
    /\ stage = "exited"
    /\ Len(exits) = 4
    /\ ~SomeFailed(4)
    /\ exitCode = 0

\* part3 failed: part4 was not run and the driver exited with 1.
C19_Part3FailedExitOne ==
    /\ stage = "exited"
    /\ Len(exits) = 3
    /\ exits[3].code # 0
    /\ exitCode = 1

\* part4 failed and the driver exited with 0.
C19_Part4FailedExitZero ==
    /\ stage = "exited"
    /\ Len(exits) = 4
    /\ exits[4].code # 0
    /\ exitCode = 0


\* The flag has been read, and it enables part4 or not.
FlagRead == TERMINATE_ON_COMPLETE # "unread"
Enabled == TERMINATE_ON_COMPLETE \in {"true", "1"}

\* part1, part2 and part3 have exited, each with 0.
FirstThreeSucceeded ==
    /\ Len(exits) >= 3
    /\ \A k \in 1..3 : exits[k].script = Scripts[k] /\ exits[k].code = 0

C20_FlagOffExitZero ==
    /\ TERMINATE_ON_COMPLETE = "false"
    /\ ~terminateSent
    /\ stage = "exited"
    /\ exitCode = 0

\* With the value true, which is also the default when the variable is unset or
\* empty, part4 runs and sends the terminate command.
C20_UnsetMeansOn ==
    /\ TERMINATE_ON_COMPLETE = "true"
    /\ terminateSent


\* The positions in sent of the terminate command.
TerminatePositions == { k \in 1..Len(sent) : sent[k] = "terminate" }

\* part4 has ended.
Part4Ended == Len(exits) = 4

\* C21: terminateEC2Instance sends the terminate command at most once, only with
\* an instance id determined and after DescribeInstances answered for it; when
\* the id cannot be determined, the instance is not found or its state is
\* terminated or terminating, it returns without sending the command.
C21_TerminateOnceAfterDescribe ==
    /\ Cardinality(TerminatePositions) <= 1
    /\ \A k \in TerminatePositions :
          /\ ~Falsy(instanceId)
          /\ k > 1 /\ sent[k - 1] = "describe"
          /\ described \notin {"unasked", "rejected", "none", "terminated", "terminating"}
    /\ terminateSent <=> TerminatePositions # { }
    /\ Part4Ended /\ (Falsy(instanceId) \/ described \in {"none", "terminated", "terminating"})
          => TerminatePositions = { } /\ exits[4].code = 0

\* The instance was found running and the command was sent after the query.
C21_Witness ==
    /\ Part4Ended
    /\ described = "running"
    /\ sent = << "describe", "terminate" >>

\* The instance was already terminated: part4 ended without sending the command.
C21_AlreadyTerminated ==
    /\ Part4Ended
    /\ described = "terminated"
    /\ sent = << "describe" >>
    /\ exits[4].code = 0

\* The state name EC2 reports while an instance terminates is shutting-down, which
\* the code does not compare with: the command is sent again.
C21_ShuttingDownSentAgain ==
    /\ described = "shutting-down"
    /\ sent = << "describe", "terminate" >>


----------------------------------------------------------------------------
(* part1: convertPDFsToText *)

\* The base names of the downloaded files: keys that end in .pdf in any case.
PdfNames == { << Word("a"), Word(".pdf") >>, << Word("b"), Word(".PDF") >>,
              << Word("c"), Word(".pdf"), Word(".pdf") >> }

MaxPdfs == 2

RECURSIVE SeqsUpTo(_, _)
\* The sequences of at most n elements of S.
SeqsUpTo(S, n) ==
    IF n = 0 THEN { << >> }
    ELSE LET shorter == SeqsUpTo(S, n - 1)
         IN  shorter \cup { Append(q, x) : q \in shorter, x \in S }

PdfLists == SeqsUpTo(PdfNames, MaxPdfs)

RECURSIVE ReplaceFirstBy(_, _, _)
\* s.replace(pat, to) for a string pat: the first occurrence only
ReplaceFirstBy(s, pat, to) ==
    IF s = << >> THEN s
    ELSE IF Head(s) = pat THEN << to >> \o Tail(s)
    ELSE << Head(s) >> \o ReplaceFirstBy(Tail(s), pat, to)

\* fileName.replace('.pdf', '.txt')
TxtNameOf(fileName) == ReplaceFirstBy(fileName, Word(".pdf"), Word(".txt"))

\* fileName.replace(/\.pdf$/i, '.txt')
NoticeNameOf(fileName) ==
    IF fileName # << >> /\ fileName[Len(fileName)] \in { Word(".pdf"), Word(".PDF") }
    THEN SubSeq(fileName, 1, Len(fileName) - 1) \o << Word(".txt") >>
    ELSE fileName

\* How the body of the loop can go for one file: the three awaited or
\* synchronous steps of the conversion, and the write of the failure notice.
ConversionOutcomes ==
    { [readPdf |-> r, pdftotext |-> c, readTxt |-> t, notice |-> n] :
        r \in BOOLEAN, c \in BOOLEAN, t \in BOOLEAN, n \in BOOLEAN }

Converted(o) == o.readPdf /\ o.pdftotext /\ o.readTxt

\* What the directory holds after a write to name.
WriteFile(d, name, file) == [f \in DOMAIN d \cup { name } |-> IF f = name THEN file ELSE d[f]]

TextFile == [kind |-> "text", totalFiles |-> 0, successfulConversions |-> 0]
FailureNotice == [kind |-> "notice", totalFiles |-> 0, successfulConversions |-> 0]
SummaryName == << Word("_conversion_summary.json") >>

\* The summary: totalFiles, successfulConversions
Summary(files, done) ==
    [kind |-> "summary", totalFiles |-> Len(files), successfulConversions |-> Len(done)]

\* A failed conversion ends the loop.
LoopAfterBreak(ok, ix) == IF ok THEN ix + 1 ELSE Len(pdfFiles) + 1

\* for (const pdfFile of pdfFiles) { try ... catch { ...; continue; } }
LoopAfter(ok, ix) == ix + 1

InitConvert ==
    /\ HandlerIdle("part1")
    /\ vIn = Undefined
    /\ vOut = VIdle
    /\ CodecIdle
    /\ SanitizerIdle
    /\ DriverIdle
    /\ p1 = "convert"
    /\ pdfFiles \in PdfLists
    /\ fileIx = 1
    /\ convertedFiles = << >>
    /\ convertedDir = EmptyDir
    /\ tried = << >>
    /\ timeoutId = "none"
    /\ firedAt = { }
    /\ setup = NoEnv
    /\ AggregationIdle

\* One pass of the loop body of convertPDFsToText, the conversion going as o.
ConvertOne(o) ==
    /\ p1 = "convert"
    /\ fileIx <= Len(pdfFiles)
    /\ LET fileName == pdfFiles[fileIx]
           afterTool == IF o.readPdf /\ o.pdftotext
                        THEN WriteFile(convertedDir, TxtNameOf(fileName), TextFile)
                        ELSE convertedDir
       IN  /\ IF Converted(o)
              THEN /\ convertedFiles' = Append(convertedFiles,
                                               [originalFile |-> fileName,
                                                textFile |-> TxtNameOf(fileName)])
                   /\ convertedDir' = afterTool
              ELSE /\ UNCHANGED convertedFiles
                   /\ convertedDir' = IF o.notice
                                      THEN WriteFile(afterTool, NoticeNameOf(fileName), FailureNotice)
                                      ELSE afterTool
           /\ tried' = Append(tried, [file |-> fileName, ok |-> Converted(o)])
           /\ fileIx' = LoopAfter(Converted(o), fileIx)
    /\ UNCHANGED << bvars, vIn, vOut, cvars, svars, dvars, tvars, evars, avars, p1, pdfFiles >>

\* After the loop: the summary file is written and convertedFiles returned, or
\* the write is rejected and the function throws.
WriteSummary(ok) ==
    /\ p1 = "convert"
    /\ fileIx > Len(pdfFiles)
    /\ IF ok
       THEN /\ convertedDir' = WriteFile(convertedDir, SummaryName, Summary(pdfFiles, convertedFiles))
            /\ p1' = "returned"
       ELSE /\ p1' = "thrown"
            /\ UNCHANGED convertedDir
    /\ UNCHANGED << bvars, vIn, vOut, cvars, svars, dvars, tvars, evars, avars, pdfFiles, fileIx, convertedFiles,
                    tried >>

NextConvert ==
    \/ \E o \in ConversionOutcomes : ConvertOne(o)
    \/ \E ok \in BOOLEAN : WriteSummary(ok)

SpecConvert == InitConvert /\ [][NextConvert]_vars

\* The positions of tried of the files converted without error.
ConvertedWithoutError == { k \in 1..Len(tried) : tried[k].ok }

\* convertPDFsToText has ended.
ConvertEnded == p1 \in {"returned", "thrown"}

\* C22: convertPDFsToText runs the loop body for every file of its input, in
\* order, whether or not earlier conversions failed; it throws only when the
\* write of the summary is rejected, and the summary it writes has totalFiles
\* equal to the number of input files and successfulConversions equal to the
\* number of files converted without error.
C22_EveryPdfProcessed ==
    /\ p1 = "convert" => Len(tried) = fileIx - 1
    /\ Len(tried) <= Len(pdfFiles)
    /\ \A k \in 1..Len(tried) : tried[k].file = pdfFiles[k]
    /\ ConvertEnded => Len(tried) = Len(pdfFiles)
    /\ Len(convertedFiles) = Cardinality(ConvertedWithoutError)
    /\ p1 = "returned" =>
          /\ SummaryName \in DOMAIN convertedDir
          /\ convertedDir[SummaryName].kind = "summary"
          /\ convertedDir[SummaryName].totalFiles = Len(pdfFiles)
          /\ convertedDir[SummaryName].successfulConversions = Cardinality(ConvertedWithoutError)
    /\ p1 # "returned" => SummaryName \notin DOMAIN convertedDir

\* The first of two conversions failed, the second succeeded, and the summary
\* counts two files and one conversion.
C22_Witness ==
    /\ p1 = "returned"
    /\ Len(tried) = 2
    /\ ~tried[1].ok
    /\ tried[2].ok
    /\ convertedDir[SummaryName] = [kind |-> "summary", totalFiles |-> 2, successfulConversions |-> 1]


----------------------------------------------------------------------------
(* Claims about the retry loop, the requests and part1's setup *)

\* The attempts that failed so far, each with HTTP 502 or a timeout.
AllTransient == \A k \in 1 .. Len(hist) : TransientOutcome(hist[k])

\* The delays of the invocation are k seconds after attempt k and increase, and
\* a call is outstanding only when no delay is.
DelaysLinear ==
    /\ \A k \in 1 .. Len(delays) : delays[k] = k * 1000
    /\ \A k \in 2 .. Len(delays) : delays[k - 1] < delays[k]
    /\ ist = "backoff" => calls = Len(delays) /\ Len(hist) = Len(delays)
    /\ ist = "inflight" => calls = Len(delays) + 1

C23_NoDelayAfterThird ==
    /\ hist = << HttpError(502), HttpError(502), HttpError(502) >>
    /\ delays = << 1000, 2000 >>
    /\ ist = "thrown"


----------------------------------------------------------------------------
(* The retry loop with the timer of each attempt *)

\* Each attempt creates an AbortController and a timer of TIMEOUT_MS that calls
\* controller.abort(); the options of axios.post hold timeout: TIMEOUT_MS and no
\* signal, so the abort reaches no one and the call ends only as axios ends it.

\* clearTimeout(timeoutId): a pending timer is cleared, another one is left as it is.
clearTimeout(t) == IF t = "pending" THEN "cleared" ELSE t

InitTimeout ==
    /\ HandlerIdle("invocation")
    /\ vIn = Undefined
    /\ vOut = VIdle
    /\ CodecIdle
    /\ SanitizerIdle
    /\ DriverIdle
    /\ ScriptsIdle

\* invokeModelEndpoint is called: the timer of attempt 1 is set and the call issued.
FirstAttempt ==
    /\ pc = "invocation"
    /\ ist = "idle"
    /\ attempt' = 1
    /\ calls' = 1
    /\ ist' = "inflight"
    /\ timeoutId' = "pending"
    /\ UNCHANGED << variant, dir, table, pc, maxId, txtFiles, i, results, response, store,
                    payload, hist, delays, modelResult, ierr, steps, visited,
                    vIn, vOut, cvars, svars, dvars, pvars, firedAt,
                    evars, avars >>

\* TIMEOUT_MS after the timer was set: controller.abort(), which nothing listens to.
TimerFires ==
    /\ pc = "invocation"
    /\ timeoutId = "pending"
    /\ timeoutId' = "fired"
    /\ firedAt' = firedAt \cup { attempt }
    /\ UNCHANGED << bvars, vIn, vOut, cvars, svars, dvars, pvars, evars, avars >>

\* The call ends in o: clearTimeout, then the rest of the attempt.
AttemptEnds(o) ==
    /\ pc = "invocation"
    /\ ist = "inflight"
    /\ hist' = Append(hist, o)
    /\ timeoutId' = clearTimeout(timeoutId)
    /\ LET r == RetryStep(attempt, o)
       IN  CASE r.kind = "retry" ->
                  /\ ist' = "backoff"
                  /\ delays' = Append(delays, r.backoffMs)
                  /\ UNCHANGED << modelResult, ierr >>
             [] r.kind = "throw" ->
                  /\ ist' = "thrown"
                  /\ ierr' = r.err
                  /\ UNCHANGED << delays, modelResult >>
             [] OTHER ->
                  /\ ist' = "returned"
                  /\ modelResult' = r.val
                  /\ UNCHANGED << delays, ierr >>
    /\ UNCHANGED << variant, dir, table, pc, maxId, txtFiles, i, results, response, store,
                    payload, attempt, calls, steps, visited,
                    vIn, vOut, cvars, svars, dvars, pvars, firedAt,
                    evars, avars >>

\* The backoff delay has elapsed: continue, attempt++, and the test of the for
\* loop. Inside the loop the next attempt sets its timer and issues its call;
\* past MAX_RETRIES the loop ends and the function returns undefined.
NextAttempt ==
    /\ pc = "invocation"
    /\ ist = "backoff"
    /\ attempt' = attempt + 1
    /\ IF attempt + 1 <= MAX_RETRIES
       THEN /\ calls' = calls + 1
            /\ ist' = "inflight"
            /\ timeoutId' = "pending"
       ELSE /\ ist' = "fellout"
            /\ UNCHANGED << calls, timeoutId >>
    /\ UNCHANGED << variant, dir, table, pc, maxId, txtFiles, i, results, response, store,
                    payload, hist, delays, modelResult, ierr, steps, visited,
                    vIn, vOut, cvars, svars, dvars, pvars, firedAt,
                    evars, avars >>

NextTimeout ==
    \/ FirstAttempt
    \/ TimerFires
    \/ \E o \in Outcomes : AttemptEnds(o)
    \/ NextAttempt

SpecTimeout == InitTimeout /\ [][NextTimeout]_vars

\* C24, as claimed: when the timeout of an attempt elapses the call is cancelled
\* and the attempt is a failure, retried if attempts remain: no call is
\* outstanding once the timer of its attempt has fired, an attempt whose timer
\* fired did not return a result, and no timer is pending once its attempt ended.
C24_TimeoutCancelsTheCall ==
    /\ timeoutId = "fired" => ist # "inflight"
    /\ \A k \in firedAt : k <= Len(hist) => ~AttemptBody(hist[k]).ok
    /\ ist # "inflight" => timeoutId # "pending"

\* The divergence behind C24: the timer of attempt 1 fired, the call stayed
\* outstanding, and then ended with a response that the invocation returned.
C24_ReturnedAfterTimeout ==
    /\ firedAt = { 1 }
    /\ Len(hist) = 1
    /\ ist = "returned"
    /\ timeoutId = "fired"

\* What holds: no timer is pending once its attempt has ended, and a call that
\* axios itself ended with its timeout is a failure, retried while attempts remain.
C24_TimerClearedAxiosTimeoutRetried ==
    /\ ist # "inflight" => timeoutId # "pending"
    /\ ist = "inflight" => timeoutId \in {"pending", "fired"}
    /\ \A k \in 1 .. Len(hist) :
          hist[k] = TimedOut =>
             IF k < 3 THEN Len(delays) >= k ELSE ist = "thrown"

\* axios ended the first call with its timeout and the second call is outstanding.
C24_AxiosTimeoutRetried ==
    /\ hist = << TimedOut >>
    /\ delays = << 1000 >>
    /\ ist = "inflight"
    /\ attempt = 2
    /\ timeoutId = "pending"


----------------------------------------------------------------------------
(* The shape of what an invocation returns *)

\* C25, as claimed: every result a successful invocation returns is in canonical
\* shape, a map with a top-level analyticsId typed attribute, whether the response
\* was canonical or a legacy response whose generated_text string was parsed.
C25_ReturnedIsCanonical ==
    ist = "returned" => CanonicalShape(modelResult)

\* The divergence behind C25: the legacy response whose generated_text is the
\* string "null" is parsed and the invocation returns null.
C25_LegacyNullReturned ==
    /\ ist = "returned"
    /\ hist = << Response(JSONstringify(Legacy(JNull))) >>
    /\ modelResult = JNull

\* What holds: the result is in canonical shape whenever the response was, or
\* was the legacy wrapping of a body in canonical shape.
C25_CanonicalInCanonicalOut ==
    (ist = "returned" /\ hist[Len(hist)].kind = "response"
       /\ BodyParses(hist[Len(hist)].text)
       /\ \/ CanonicalShape(BodyValue(hist[Len(hist)].text))
          \/ \E x \in CanonicalBodies : BodyValue(hist[Len(hist)].text) = Legacy(x))
      => CanonicalShape(modelResult)

\* A legacy response wrapping a canonical body was returned in canonical shape.
C25_LegacyCanonicalReturned ==
    /\ ist = "returned"
    /\ \E x \in CanonicalBodies : hist = << Response(JSONstringify(Legacy(x))) >>
    /\ CanonicalShape(modelResult)


----------------------------------------------------------------------------
(* The ids of the documents submitted *)

\* File names whose stem Number() converts although it is not a run of decimal
\* digits, next to a decimal one, a word and a name that is nothing but ".txt".
IdNames == << << NumTok(1), Word("."), NumTok(5), Word(".txt") >>,
              << Word("0x"), NumTok(10), Word(".txt") >>,
              << NumTok(1), Word("e"), NumTok(3), Word(".txt") >>,
              << Word(" "), Word(".txt") >>,
              << Word(".txt") >>,
              << NumTok(7), Word(".txt") >>,
              << Word("abc"), Word(".txt") >> >>

MaxIdFiles == 1

RECURSIVE PickIdNames(_, _)
PickIdNames(S, ix) ==
    IF ix > Len(IdNames) THEN << >>
    ELSE (IF ix \in S THEN << IdNames[ix] >> ELSE << >>) \o PickIdNames(S, ix + 1)

IdListings ==
    { PickIdNames(S, 1) :
        S \in { T \in SUBSET (1 .. Len(IdNames)) : Cardinality(T) \in 1 .. MaxIdFiles } }

\* A batch run of the retrying variant over a listing of such names.
InitIds ==
    /\ variant = "retry"
    /\ dir \in IdListings
    /\ table = << [analyticsId |-> WireN(3), assignmentId |-> WireN(7)] >>
    /\ pc = "scan"
    /\ maxId = NegInf
    /\ txtFiles = << >>
    /\ i = 0
    /\ results = << >>
    /\ response = NoResponse
    /\ store = << >>
    /\ payload = NoPayload
    /\ attempt = 0
    /\ ist = "idle"
    /\ calls = 0
    /\ hist = << >>
    /\ delays = << >>
    /\ modelResult = Undefined
    /\ ierr = NoErr
    /\ steps = NoSteps
    /\ visited = << >>
    /\ vIn = Undefined
    /\ vOut = VIdle
    /\ CodecIdle
    /\ SanitizerIdle
    /\ DriverIdle
    /\ ScriptsIdle

SpecIds == InitIds /\ [][Next]_vars

\* The id is a run of decimal digits: what parses as a base-10 integer, whole.
Base10Integer(id) == Len(id) = 1 /\ id[1].k = "num"

\* C26, as claimed: every request sent in a batch run has a documentId that parses
\* as a base-10 integer, and a document whose stem is not one is skipped: no call
\* is made for it.
C26_RequestIdIsBase10Integer ==
    /\ payload # NoPayload => Base10Integer(payload.assignmentId)
    /\ (steps.file # << >> /\ ~Base10Integer(AssignmentId(steps.file))) =>
          /\ steps.done
          /\ steps.invoke = "none"

\* The divergence behind C26: requests with the ids 1.5, 0x10, 1e3 and a blank.
C26_FractionSubmitted ==
    /\ pc = "invoke"
    /\ payload.assignmentId = << NumTok(1), Word("."), NumTok(5) >>
C26_HexSubmitted ==
    /\ pc = "invoke"
    /\ payload.assignmentId = << Word("0x"), NumTok(10) >>
C26_ExponentSubmitted ==
    /\ pc = "invoke"
    /\ payload.assignmentId = << NumTok(1), Word("e"), NumTok(3) >>
C26_BlankSubmitted ==
    /\ pc = "invoke"
    /\ payload.assignmentId = << Word(" ") >>

\* What holds: the id of every request is one that Number() converts to a number,
\* and a document whose id it converts to NaN is skipped.
C26_RequestIdIsNotNaN ==
    /\ payload # NoPayload => NumberJS(JStr(payload.assignmentId)).t # "nan"
    /\ (steps.file # << >> /\ steps.load = "ok"
          /\ NumberJS(JStr(AssignmentId(steps.file))).t = "nan") =>
          /\ steps.done
          /\ steps.invoke = "none"

\* The file named ".txt" has no extension for path.extname: its id is ".txt", skipped.
C26_DotTxtSkipped ==
    /\ steps.file = << Word(".txt") >>
    /\ steps.load = "ok"
    /\ steps.done
    /\ payload = NoPayload


----------------------------------------------------------------------------
(* The analyticsId of the requests *)

\* C27, as claimed: whatever the table held at the start of the run, an empty
\* table and one whose records have non-numeric analyticsId values included, the
\* analyticsId placed in every request of the run is a finite integer.
C27_RequestAnalyticsIdFinite ==
    payload # NoPayload => payload.analyticsId.t = "num"

\* The divergence behind C27: with an empty table, and with a table whose only
\* analyticsId is not numeric, the request carries -Infinity.
C27_EmptyTableMinusInfinity ==
    /\ table = << >>
    /\ pc = "invoke"
    /\ payload.analyticsId = NegInf
C27_NonNumericMinusInfinity ==
    /\ table = << [analyticsId |-> WireS("abc")] >>
    /\ pc = "invoke"
    /\ payload.analyticsId = NegInf

\* What holds: when some record of the table has a numeric analyticsId, every
\* request carries an integer: the highest such id (plain variant) or the one
\* after it (retrying variant).
C27_FiniteWhenSomeIdNumeric ==
    (payload # NoPayload /\ MaxIdFrom(table, 1, NegInf).t = "num") =>
        /\ payload.analyticsId.t = "num"
        /\ payload.analyticsId.v = 3 + (IF variant = "retry" THEN 1 ELSE 0)

C27_NumericTableRequest ==
    /\ table = << [analyticsId |-> WireN(3), assignmentId |-> WireN(7)] >>
    /\ variant = "retry"
    /\ pc = "invoke"
    /\ payload.analyticsId = JNum(4)


----------------------------------------------------------------------------
(* part1: setupEnvironment, and main up to the conversion *)

Regions == { "us-east-1", "eu-west-1" }

\* What HeadBucket ends in: 200, or an error with this HTTP status.
HeadStatuses == { 200, 403, 301, 404 }

\* What GetBucketLocation ends in: rejected, or a response whose
\* LocationConstraint is absent, empty or a region.
LocationAnswers == { "rejected", "absent", "" } \cup Regions

\* detected: LocationConstraint, 'us-east-1' when it is absent or empty.
Detected(answer) == IF answer \in { "absent", "" } THEN "us-east-1" ELSE answer

InitSetup ==
    /\ HandlerIdle("part1")
    /\ vIn = Undefined
    /\ vOut = VIdle
    /\ CodecIdle
    /\ SanitizerIdle
    /\ DriverIdle
    /\ p1 = "setup"
    /\ pdfFiles = << >>
    /\ fileIx = 0
    /\ convertedFiles = << >>
    /\ convertedDir = EmptyDir
    /\ tried = << >>
    /\ timeoutId = "none"
    /\ firedAt = { }
    /\ \E r \in Regions, tool \in BOOLEAN, diag \in BOOLEAN :
          setup = [NoEnv EXCEPT !.at = "mkdir", !.region = r, !.pdftotext = tool,
                                !.diagnose = diag]
    /\ AggregationIdle

\* setupEnvironment returns: main goes on to fetchAssignmentsFromS3.
SetupReturns(e) ==
    /\ setup' = [e EXCEPT !.at = "returned"]
    /\ p1' = "fetch"

\* setupEnvironment throws: its outer catch rethrows, main's catch rethrows, and
\* run() ends the process with process.exit(1).
SetupThrows(e) ==
    /\ setup' = [e EXCEPT !.at = "thrown"]
    /\ p1' = "exit1"

\* The catch of the detection (innerErr): the AWS CLI is run when S3_DIAGNOSE is
\* 'true', whatever it ends in; then the throw err that ends the outer catch.
DetectionFailed(e) == SetupThrows([e EXCEPT !.diagnosed = e.diagnose])

\* The two fsp.mkdir, then which pdftotext (a warning when it is missing).
MakeDirs(ok) ==
    /\ p1 = "setup"
    /\ setup.at = "mkdir"
    /\ IF ok THEN setup' = [setup EXCEPT !.at = "head"] /\ UNCHANGED p1
             ELSE SetupThrows(setup)
    /\ UNCHANGED << bvars, vIn, vOut, cvars, svars, dvars, tvars, avars,
                    pdfFiles, fileIx, convertedFiles, convertedDir, tried >>

\* await clientToUse.send(headBucketCommand) with the configured region
HeadBucket(status) ==
    /\ p1 = "setup"
    /\ setup.at = "head"
    /\ IF status = 200 THEN SetupReturns([setup EXCEPT !.verified = "first"])
       ELSE IF status = 301 THEN setup' = [setup EXCEPT !.at = "locate"] /\ UNCHANGED p1
       ELSE SetupThrows(setup)
    /\ UNCHANGED << bvars, vIn, vOut, cvars, svars, dvars, tvars, avars,
                    pdfFiles, fileIx, convertedFiles, convertedDir, tried >>

\* await clientToUse.send(locCmd) after the 301
GetBucketLocation(answer) ==
    /\ p1 = "setup"
    /\ setup.at = "locate"
    /\ IF answer = "rejected" THEN DetectionFailed(setup)
       ELSE IF Detected(answer) # setup.region
            THEN /\ setup' = [setup EXCEPT !.at = "rehead", !.detected = Detected(answer)]
                 /\ UNCHANGED p1
            ELSE SetupThrows([setup EXCEPT !.detected = Detected(answer)])
    /\ UNCHANGED << bvars, vIn, vOut, cvars, svars, dvars, tvars, avars,
                    pdfFiles, fileIx, convertedFiles, convertedDir, tried >>

\* await clientToUse.send(headBucketCommand) with the client of the detected
\* region; the catch block it is in ends with throw err either way.
HeadBucketAgain(ok) ==
    /\ p1 = "setup"
    /\ setup.at = "rehead"
    /\ IF ok THEN SetupThrows([setup EXCEPT !.verified = "detected"])
             ELSE DetectionFailed(setup)
    /\ UNCHANGED << bvars, vIn, vOut, cvars, svars, dvars, tvars, avars,
                    pdfFiles, fileIx, convertedFiles, convertedDir, tried >>

\* const pdfFiles = await fetchAssignmentsFromS3(): the files, or the rejection
\* that run() turns into process.exit(1).
FetchAssignments(ok, files) ==
    /\ p1 = "fetch"
    /\ IF ok THEN p1' = "convert" /\ pdfFiles' = files /\ fileIx' = 1
             ELSE p1' = "exit1" /\ UNCHANGED << pdfFiles, fileIx >>
    /\ UNCHANGED << bvars, vIn, vOut, cvars, svars, dvars, tvars, evars, avars,
                    convertedFiles, convertedDir, tried >>

NextSetup ==
    \/ \E ok \in BOOLEAN : MakeDirs(ok)
    \/ \E status \in HeadStatuses : HeadBucket(status)
    \/ \E answer \in LocationAnswers : GetBucketLocation(answer)
    \/ \E ok \in BOOLEAN : HeadBucketAgain(ok)
    \/ \E ok \in BOOLEAN, files \in PdfLists : FetchAssignments(ok, files)

SpecSetup == InitSetup /\ [][NextSetup]_vars

\* C28, as claimed: setupEnvironment throws only if the verification of the
\* bucket access did not succeed; when the first check failed and the check
\* against the detected region succeeded it returns, and main goes on to fetch.
C28_ThrowsOnlyWhenNotVerified ==
    /\ setup.at = "thrown" => setup.verified = "no"
    /\ setup.verified = "detected" =>
          /\ setup.at = "returned"
          /\ p1 \in { "fetch", "convert" }

\* The divergence behind C28: the check against the detected region succeeded,
\* setupEnvironment threw, and the process exited with 1 without fetching.
C28_VerifiedAndThrown ==
    /\ setup.verified = "detected"
    /\ setup.at = "thrown"
    /\ p1 = "exit1"
    /\ pdfFiles = << >>

\* What holds: setupEnvironment returns exactly when the first check succeeded;
\* once the first check has failed it throws, whatever the detection found.
C28_ReturnsOnlyOnFirstCheck ==
    /\ setup.at = "returned" <=> setup.verified = "first"
    /\ setup.at = "returned" => p1 \in { "fetch", "convert", "exit1" }
    /\ setup.at = "thrown" => p1 = "exit1" /\ pdfFiles = << >>
    /\ setup.at \in { "locate", "rehead" } => setup.verified = "no"

C28_FirstCheckFetched ==
    /\ setup.verified = "first"
    /\ p1 = "convert"
    /\ Len(pdfFiles) = 2


----------------------------------------------------------------------------
(* Termination of the retry loop *)

\* The call of an attempt ends (axios ends it at its timeout at the latest) and
\* the timer of a backoff delay fires: weak fairness of these steps.
SpecTimeoutFair ==
    /\ SpecTimeout
    /\ WF_vars(FirstAttempt)
    /\ WF_vars(\E o \in Outcomes : AttemptEnds(o))
    /\ WF_vars(NextAttempt)

\* C29: whatever the calls end in, an invocation that has begun completes, and it
\* completes by returning what it parsed or by throwing an error; the loop is
\* never left past its last attempt with neither.
C29_EveryInvocationCompletes ==
    /\ [](ist # "fellout" /\ attempt <= MAX_RETRIES)
    /\ [](ist = "returned" => ierr = NoErr /\ AttemptBody(hist[Len(hist)]).ok
                              /\ modelResult = AttemptBody(hist[Len(hist)]).val)
    /\ [](ist = "thrown" => ierr # NoErr /\ modelResult = Undefined)
    /\ (ist \in { "inflight", "backoff" }) ~> (ist \in { "returned", "thrown" })

\* C29 witness: the third attempt failed with a failure that is retried on the
\* first two, and the invocation threw.
C29_Witness ==
    /\ ist = "thrown"
    /\ attempt = MAX_RETRIES
    /\ Len(hist) = MAX_RETRIES
    /\ hist[3] \in { TimedOut, HttpError(502) }


----------------------------------------------------------------------------
(* part3: the asynchronous calls of the aggregation *)

\* The module body calls generateAnalyticsSummary(1), main() and updateHomeData()
\* one after the other and awaits none of them. Each runs to its first await, a
\* request sent to DynamoDB; the requests are served in any order, and a call
\* goes on when its reply is delivered.

Request(from, op, tbl, val) ==
    [stage |-> "request", from |-> from, op |-> op, tbl |-> tbl, val |-> val, ok |-> TRUE]
Reply(m, ok, val) == [m EXCEPT !.stage = "reply", !.ok = ok, !.val = val]

\* The home_data item: whether this run wrote it, and what the scan it was made
\* from had seen of analysis_data.
HomeItem(written, saw) == [written |-> written, saw |-> saw]

InitAggregate ==
    /\ HandlerIdle("part3")
    /\ vIn = Undefined
    /\ vOut = VIdle
    /\ CodecIdle
    /\ SanitizerIdle
    /\ DriverIdle
    /\ p1 = "none"
    /\ pdfFiles = << >>
    /\ fileIx = 0
    /\ convertedFiles = << >>
    /\ convertedDir = EmptyDir
    /\ tried = << >>
    /\ timeoutId = "none"
    /\ firedAt = { }
    /\ setup = NoEnv
    /\ proc = "starting"
    /\ task = [t \in Tasks |-> "idle"]
    /\ net = { }
    /\ analysisData \in { "none", "old" }
    /\ homeData \in { HomeItem(FALSE, "unseen"), HomeItem(FALSE, "earlier") }
    /\ scanSaw = "unseen"
    /\ events = << >>

\* The module body, run to its end: the three calls are started and each has
\* sent the scan it begins with.
StartAll ==
    /\ proc = "starting"
    /\ proc' = "running"
    /\ task' = [t \in Tasks |-> "scanning"]
    /\ net' = { Request("stray", "scan", "assignment_analysis_data", "none"),
                Request("main", "scan", "assignment_analysis_data", "none"),
                Request("home", "scan", "analysis_data", "none") }
    /\ UNCHANGED << bvars, vIn, vOut, cvars, svars, dvars, pvars, tvars, evars,
                    analysisData, homeData, scanSaw, events >>

\* DynamoDB serves the request m, or rejects it: a scan of analysis_data returns
\* the item as it is now, a put replaces the item.
Serve(m, ok) ==
    /\ m.stage = "request"
    /\ events' = Append(events, << m.from, m.op, ok >>)
    /\ net' = (net \ { m }) \cup
              { Reply(m, ok, IF ok /\ m.op = "scan" /\ m.tbl = "analysis_data"
                             THEN analysisData ELSE m.val) }
    /\ analysisData' = IF ok /\ m.op = "put" /\ m.tbl = "analysis_data"
                       THEN "new" ELSE analysisData
    /\ homeData' = IF ok /\ m.op = "put" /\ m.tbl = "home_data"
                   THEN HomeItem(TRUE, m.val) ELSE homeData
    /\ UNCHANGED << bvars, vIn, vOut, cvars, svars, dvars, pvars, tvars, evars,
                    proc, task, scanSaw >>

\* What a call does when the reply to its scan arrives: its put, or its end.
AfterScan(t, val) ==
    CASE t = "main" -> { Request("main", "put", "analysis_data", "new") }
      [] t = "home" -> { Request("home", "put", "home_data", val) }
      [] OTHER      -> { }

\* The reply m is delivered and the call that awaited it goes on. A rejection is
\* thrown out of a call nobody awaits: node ends the process.
Deliver(m) ==
    /\ proc = "running"
    /\ m.stage = "reply"
    /\ IF ~m.ok
       THEN /\ proc' = "crashed"
            /\ task' = [task EXCEPT ![m.from] = "failed"]
            /\ net' = net \ { m }
            /\ UNCHANGED scanSaw
       ELSE /\ UNCHANGED proc
            /\ IF m.op = "scan"
               THEN /\ net' = (net \ { m }) \cup AfterScan(m.from, m.val)
                    /\ task' = [task EXCEPT ![m.from] =
                                   IF m.from = "stray" THEN "done" ELSE "putting"]
                    /\ scanSaw' = IF m.from = "home" THEN m.val ELSE scanSaw
               ELSE /\ net' = net \ { m }
                    /\ task' = [task EXCEPT ![m.from] = "done"]
                    /\ UNCHANGED scanSaw
    /\ UNCHANGED << bvars, vIn, vOut, cvars, svars, dvars, pvars, tvars, evars,
                    analysisData, homeData, events >>

NextAggregate ==
    \/ StartAll
    \/ \E m \in net, ok \in BOOLEAN : Serve(m, ok)
    \/ \E m \in net : Deliver(m)

SpecAggregate == InitAggregate /\ [][NextAggregate]_vars

\* The position in events of the request op of the call t that was served, 0 if none.
ServedAt(t, op) ==
    IF \E k \in 1 .. Len(events) : events[k] = << t, op, TRUE >>
    THEN CHOOSE k \in 1 .. Len(events) : events[k] = << t, op, TRUE >>
    ELSE 0

\* C30, as claimed: the scan of analysis_data by generateHomeDataSummary is served
\* after the put of uploadAnalyticsSummary of the same run has completed, so the
\* home_data item written in a run reflects the summary of that run.
C30_HomeScanAfterSummaryPut ==
    /\ ServedAt("home", "scan") > 0 =>
          /\ ServedAt("main", "put") > 0
          /\ ServedAt("main", "put") < ServedAt("home", "scan")
    /\ homeData.written => homeData.saw = "new"

\* The divergence behind C30: both calls ended, the table holds the summary of
\* this run, and the home_data item was made from what the table held before.
C30_StaleHomeData ==
    /\ task["main"] = "done"
    /\ task["home"] = "done"
    /\ analysisData = "new"
    /\ homeData.written
    /\ homeData.saw # "new"

\* The scan was sent before the put of the summary was: when the module body has
\* run, the scan is in flight and main has not received its own scan yet.
C30_ScanSentBeforePut ==
    /\ proc = "running"
    /\ task["main"] = "scanning"
    /\ Request("home", "scan", "analysis_data", "none") \in net

\* What holds: the home_data item written by the run is made from what its scan
\* returned, and a scan served before the put does not hold this run's summary.
C30_HomeReflectsItsScan ==
    /\ homeData.written => homeData.saw = scanSaw
    /\ (ServedAt("home", "scan") > 0
          /\ (ServedAt("main", "put") = 0 \/ ServedAt("home", "scan") < ServedAt("main", "put")))
         => \A m \in net : (m.from = "home" /\ m.stage = "reply" /\ m.op = "scan")
                              => m.val # "new"
    /\ task["main"] \in { "putting", "done" } => ServedAt("main", "scan") > 0

\* The order the claim describes can occur as well, when the scan is served late.
C30_ScanServedAfterPut ==
    /\ homeData.written
    /\ homeData.saw = "new"


====
